---- MODULE Spec2Model ----
(***************************************************************************)
(* prisma-util: schema aggregation, conflict resolution, schema emission,  *)
(* the generation (patch) toolchain and the middleware/extension feature   *)
(* registries, modelled from src/src/cli/parser.ts, src/src/cli/index.ts,  *)
(* src/unnamed/part_002 and src/src/cli/lib/toolchain/middleware.ts.       *)
(*                                                                         *)
(* JavaScript objects are insertion-ordered maps: they are modelled as     *)
(* sequences of [k, v] entries.  A FileModel "file:name" is the pair       *)
(* <<file, name>>; a Remapper key "file:Model.column" is the triple        *)
(* <<file, Model, column>>.  `undefined` values are kept explicit.         *)
(***************************************************************************)
EXTENDS Integers, Sequences, FiniteSets, TLC

VARIABLES
    models,        \* parser.models: file -> ordered map name -> block text
    modelColumns,  \* parser.modelColumns: ordered map FileModel -> Column[]
    enums,         \* parser.enums: ordered map FileModel -> Enum
    remapper,      \* parser.remapper: ordered map relation column -> FileModel
    solutions,     \* parser.solutions: queue of {FileModel: Action}
    config,        \* parser.config: crossFileRelations, extended
    pc,            \* position of the running command
    prompt,        \* the last prompt fixConflicts showed (conflict, choices)
    written,       \* the merged schema file on disk
    applied,       \* applyPatches calls made so far and the queue length seen
    disk,          \* generated artifact files: path -> content
    queue,         \* GenerationToolchain.queue
    useExtensions, \* GenerationToolchain._useExtensions
    repo,          \* transactionRepository of the last pass
    tpc,           \* processPromise, its holders, the last queueEditTransaction result
    passes,        \* the passes completed so far: queue, content before and after, log
    packages,      \* MiddlewareToolchain.packages
    fsys,          \* files under toolchain/middleware: package -> feature -> code
    writes,        \* the file operations of the last generate()
    gpc            \* processPromise of the registry, its holders, the run

vars ==
    <<models, modelColumns, enums, remapper, solutions, config, pc, prompt,
      written, applied, disk, queue, useExtensions, repo, tpc, passes,
      packages, fsys, writes, gpc>>

storeVars ==
    <<models, modelColumns, enums, remapper, solutions, config, pc, prompt,
      written, applied>>

toolVars ==
    <<disk, queue, useExtensions, repo, tpc, passes>>

regVars ==
    <<packages, fsys, writes, gpc>>

----------------------------------------------------------------------------
(* Bounds *)

\* answers the resolution loop may queue
MaxSolutions ==
    4

\* actions suggested through the engine's suggest()
MaxQueue ==
    2

\* applyPatches calls made through the engine's interface
MaxCalls ==
    3

\* transactions queued before one process() call
MaxTransactions ==
    2

\* runs of the program on the same generated files
MaxPasses ==
    2

\* process() or generate() calls made on one instance
MaxCallers ==
    2

\* features registered before one generate() call
MaxFeatures ==
    2

\* runs of the program on the same toolchain directory
MaxRuns ==
    2

----------------------------------------------------------------------------
(* Generic helpers: folds and insertion-ordered maps *)

Range(s) ==
    {s[i] : i \in DOMAIN s}

Has(m, k) ==
    \E i \in DOMAIN m : m[i].k = k

Get(m, k) ==
    m[CHOOSE i \in DOMAIN m : m[i].k = k].v

Without(m, k) ==
    SelectSeq(m, LAMBDA e : e.k # k)

Put(m, k, val) ==
    IF Has(m, k)
    THEN [i \in DOMAIN m |-> IF m[i].k = k THEN [k |-> k, v |-> val] ELSE m[i]]
    ELSE Append(m, [k |-> k, v |-> val])

Keys(m) ==
    [i \in DOMAIN m |-> m[i].k]

Values(m) ==
    [i \in DOMAIN m |-> m[i].v]

Contains(s, x) ==
    \E i \in DOMAIN s : s[i] = x

RECURSIVE Flatten(_)
Flatten(ss) ==
    IF ss = <<>> THEN <<>> ELSE Head(ss) \o Flatten(Tail(ss))

----------------------------------------------------------------------------
(* Values of the Model Store *)

Files ==
    <<"a", "b", "c">>

\* the value of a missing property
UndefinedText ==
    [def |-> FALSE, kind |-> "-", origin |-> <<"-", "-">>]

\* the text of a block, identified by its kind and the FileModel it was loaded as
Text(kind, origin) ==
    [def |-> TRUE, kind |-> kind, origin |-> origin]

UndefinedColumns ==
    [def |-> FALSE, cols |-> <<>>]

Cols(cs) ==
    [def |-> TRUE, cols |-> cs]

Col(name, type, constraints) ==
    [name |-> name, type |-> type, constraints |-> constraints]

\* constraint.startsWith("@relation")
StartsWithRelation(token) ==
    token \in {"@relation", "@relation(fields:"}

IsRelation(column) ==
    \E i \in DOMAIN column.constraints : StartsWithRelation(column.constraints[i])

\* the store: the four maps applyPatches and remap mutate
Store(m, mc, e, r) ==
    [models |-> m, modelColumns |-> mc, enums |-> e, remapper |-> r]

GetText(fileData, name) ==
    IF Has(fileData, name) THEN Get(fileData, name) ELSE UndefinedText

GetColumns(mc, key) ==
    IF Has(mc, key) THEN Get(mc, key) ELSE UndefinedColumns

----------------------------------------------------------------------------
(* load: fragments -> Model Store *)

ModelDecl(name, cols) ==
    [kind |-> "model", name |-> name, cols |-> cols, values |-> <<>>]

EnumDecl(name, values) ==
    [kind |-> "enum", name |-> name, cols |-> <<>>, values |-> values]

\* one iteration of the loop over includeFiles: the enum blocks of the file,
\* then its model blocks, skipping excluded keys; then models[name] = fileData
RECURSIVE LoadBlocks(_, _, _)
LoadBlocks(acc, file, decls) ==
    IF decls = <<>>
    THEN acc
    ELSE LET d == Head(decls)
             next ==
                 IF d.kind = "enum"
                 THEN [acc EXCEPT !.enums = Put(@, <<file, d.name>>, [name |-> d.name, values |-> d.values]),
                                  !.fileData = Put(@, d.name, Text("enum", <<file, d.name>>))]
                 ELSE [acc EXCEPT !.fileData = Put(@, d.name, Text("model", <<file, d.name>>)),
                                  !.modelColumns = Put(@, <<file, d.name>>, Cols(d.cols))]
         IN  LoadBlocks(next, file, Tail(decls))

LoadFile(st, file, decls, excludeModels) ==
    LET kept(kind) ==
            SelectSeq(decls, LAMBDA d : d.kind = kind /\ <<file, d.name>> \notin excludeModels)
        loaded ==
            LoadBlocks([enums |-> st.enums, modelColumns |-> st.modelColumns, fileData |-> <<>>],
                       file, kept("enum") \o kept("model"))
    IN  [st EXCEPT !.models = Put(@, file, loaded.fileData),
                   !.modelColumns = loaded.modelColumns,
                   !.enums = loaded.enums]

\* the loop of load() over the fragments, base schema first
RECURSIVE LoadFiles(_, _, _)
LoadFiles(st, fragments, excludeModels) ==
    IF fragments = <<>>
    THEN st
    ELSE LoadFiles(LoadFile(st, Head(fragments).file, Head(fragments).decls, excludeModels),
                   Tail(fragments), excludeModels)

Load(fragments, excludeModels, relations) ==
    LoadFiles(Store(<<>>, <<>>, <<>>, relations), fragments, excludeModels)

----------------------------------------------------------------------------
(* Resolution Engine: remap, getReferredRelations, applyPatches *)

NoColumn ==
    <<"-", "-", "-">>

NoModel ==
    <<"-", "-">>

Action(type, item, newName, from, to) ==
    [type |-> type, item |-> item, newName |-> newName, from |-> from, to |-> to]

Skip(item) ==
    Action("skip", item, "-", NoColumn, NoModel)

Rename(newName, item) ==
    Action("rename", item, newName, NoColumn, NoModel)

RenameRel(newName, item) ==
    Action("rename-rel", item, newName, NoColumn, NoModel)

Remap(from, to, item) ==
    Action("remap", item, "-", from, to)

\* {[item]: action}, one entry of parser.solutions
Solution(key, action) ==
    [key |-> key, action |-> action]

\* getReferredRelations: the relation columns typed with the bare name of
\* fileModel, in every modelColumns entry other than fileModel itself
GetReferredRelations(mc, fileModel) ==
    LET validModels ==
            SelectSeq(mc, LAMBDA e : e.k # fileModel)
        refsOf(e) ==
            IF e.v.def
            THEN LET hits == SelectSeq(e.v.cols, LAMBDA c : IsRelation(c) /\ c.type = fileModel[2])
                 IN  [i \in DOMAIN hits |-> [model |-> e.k, column |-> hits[i]]]
            ELSE <<>>
    IN  Flatten([i \in DOMAIN validModels |-> refsOf(validModels[i])])

\* the first loop of remap(old, newMap): the first Remapper entry that names
\* old, as the model of its key or as its target, is rewritten; then break
RemapStep(r, old, newMap) ==
    LET names(e) ==
            <<e.k[1], e.k[2]>> = old \/ e.v = old
        hits ==
            {i \in DOMAIN r : names(r[i])}
    IN  IF hits = {}
        THEN r
        ELSE LET i == CHOOSE j \in hits : \A h \in hits : j <= h
                 e == r[i]
             IN  IF <<e.k[1], e.k[2]>> = old
                 THEN Put(Without(r, e.k), <<newMap[1], newMap[2], e.k[3]>>, e.v)
                 ELSE Put(r, e.k, newMap)

\* the relation repair of rename-rel: each referring column gets the new
\* name as its type and is moved to the end of its model's column list
RepairRelation(mc, rel, newName) ==
    LET cols  == Get(mc, rel.model).cols
        found == {i \in DOMAIN cols : cols[i].name = rel.column.name}
    IN  IF found = {}
        THEN mc
        ELSE LET i      == CHOOSE j \in found : \A h \in found : j <= h
                 column == [cols[i] EXCEPT !.type = newName]
             IN  Put(mc, rel.model,
                     Cols(Append(SelectSeq(cols, LAMBDA c : c.name # rel.column.name), column)))

RepairRelations_FirstOnly(mc, relations, newName) ==
    IF relations = <<>>
    THEN mc
    ELSE RepairRelation(mc, Head(relations), newName)

\* the for loop of rename-rel over getReferredRelations(fileModel)
RECURSIVE RepairRelations(_, _, _)
RepairRelations(mc, relations, newName) ==
    IF relations = <<>>
    THEN mc
    ELSE RepairRelations(RepairRelation(mc, Head(relations), newName), Tail(relations), newName)

\* the body of the inner loop of applyPatches for one queued action
DeleteModel_KeepsColumns(st, fileModel) ==
    [st EXCEPT !.models = Put(@, fileModel[1], Without(Get(@, fileModel[1]), fileModel[2]))]

\* an applyPatches that deletes the columns and leaves the entry of the model
\* in the model map of its file
DeleteModel_KeepsText(st, fileModel) ==
    [st EXCEPT !.modelColumns = Without(@, fileModel)]

\* `delete this.models[fileName][modelName]` and
\* `delete this.modelColumns[fileModel]`
DeleteModel(st, fileModel) ==
    [st EXCEPT !.models = Put(@, fileModel[1], Without(Get(@, fileModel[1]), fileModel[2])),
               !.modelColumns = Without(@, fileModel)]

\* applyPatches with the relation repair run for rename as well
ApplyAction_RenameRepairs(st, sol) ==
    LET fileName   == sol.key[1]
        modelName  == sol.key[2]
        actionData == sol.action
        value      == Get(st.models, fileName)
        text       == GetText(value, modelName)
        columns    == GetColumns(st.modelColumns, sol.key)
        s1 ==
            IF actionData.type # "remap"
            THEN DeleteModel(st, sol.key)
            ELSE st
        hasEnum    == Has(s1.enums, sol.key)
        enum       == IF hasEnum THEN Get(s1.enums, sol.key) ELSE [name |-> "-", values |-> <<>>]
        s2 ==
            IF actionData.item = "enum"
            THEN [s1 EXCEPT !.enums = Without(@, sol.key)]
            ELSE s1
        newKey     == <<fileName, actionData.newName>>
        s3 ==
            IF actionData.type \in {"rename", "rename-rel"}
            THEN IF actionData.item = "enum"
                 THEN IF hasEnum
                      THEN [s2 EXCEPT !.enums = Put(@, newKey, enum),
                                      !.models = Put(@, fileName,
                                                     Put(Get(s2.models, fileName), actionData.newName,
                                                         Text("enum", <<fileName, enum.name>>)))]
                      ELSE s2
                 ELSE LET installed ==
                              [s2 EXCEPT !.models = Put(@, fileName,
                                                        Put(Get(s2.models, fileName), actionData.newName, text)),
                                         !.modelColumns = Put(@, newKey, columns)]
                          repaired ==
                              IF actionData.type \in {"rename", "rename-rel"}
                              THEN [installed EXCEPT !.modelColumns =
                                        RepairRelations(@, GetReferredRelations(@, sol.key), actionData.newName)]
                              ELSE installed
                      IN  [repaired EXCEPT !.remapper = RemapStep(@, sol.key, newKey)]
            ELSE s2
    IN  IF actionData.type = "remap"
        THEN [s3 EXCEPT !.remapper = Put(@, actionData.from, actionData.to)]
        ELSE s3

\* one iteration of the loop of applyPatches: the action of one solution
ApplyAction(st, sol) ==
    LET fileName   == sol.key[1]
        modelName  == sol.key[2]
        actionData == sol.action
        value      == Get(st.models, fileName)
        text       == GetText(value, modelName)
        columns    == GetColumns(st.modelColumns, sol.key)
        s1 ==
            IF actionData.type # "remap"
            THEN DeleteModel(st, sol.key)
            ELSE st
        hasEnum    == Has(s1.enums, sol.key)
        enum       == IF hasEnum THEN Get(s1.enums, sol.key) ELSE [name |-> "-", values |-> <<>>]
        s2 ==
            IF actionData.item = "enum"
            THEN [s1 EXCEPT !.enums = Without(@, sol.key)]
            ELSE s1
        newKey     == <<fileName, actionData.newName>>
        s3 ==
            IF actionData.type \in {"rename", "rename-rel"}
            THEN IF actionData.item = "enum"
                 THEN IF hasEnum
                      THEN [s2 EXCEPT !.enums = Put(@, newKey, enum),
                                      !.models = Put(@, fileName,
                                                     Put(Get(s2.models, fileName), actionData.newName,
                                                         Text("enum", <<fileName, enum.name>>)))]
                      ELSE s2
                 ELSE LET installed ==
                              [s2 EXCEPT !.models = Put(@, fileName,
                                                        Put(Get(s2.models, fileName), actionData.newName, text)),
                                         !.modelColumns = Put(@, newKey, columns)]
                          repaired ==
                              IF actionData.type = "rename-rel"
                              THEN [installed EXCEPT !.modelColumns =
                                        RepairRelations(@, GetReferredRelations(@, sol.key), actionData.newName)]
                              ELSE installed
                      IN  [repaired EXCEPT !.remapper = RemapStep(@, sol.key, newKey)]
            ELSE s2
    IN  IF actionData.type = "remap"
        THEN [s3 EXCEPT !.remapper = Put(@, actionData.from, actionData.to)]
        ELSE s3

\* the loop of applyPatches over parser.solutions, in queued order
RECURSIVE ApplyPatches(_, _)
ApplyPatches(st, sols) ==
    IF sols = <<>> THEN st ELSE ApplyPatches(ApplyAction(st, Head(sols)), Tail(sols))

----------------------------------------------------------------------------
(* Conflict Detector *)

\* String.prototype.toLowerCase on the names the model uses
ToLowerCase(name) ==
    CASE name = "User"   -> "user"
      [] name = "Post"   -> "post"
      [] name = "Person" -> "person"
      [] name = "Topic"  -> "topic"
      [] name = "Role"   -> "role"
      [] OTHER           -> name

\* getShadowedModels: for every Remapper entry, the model of the key's file
\* that carries the target's name
GetShadowedModels(r) ==
    [i \in DOMAIN r |-> <<r[i].k[1], r[i].v[2]>>]

\* getExtendedModels: the parents named by config.extended
GetExtendedModels(extended) ==
    Values(extended)

\* getModelsExtended: the children named by config.extended
GetModelsExtended(extended) ==
    Keys(extended)

\* getReplacementModels: the targets of the Remapper
GetReplacementModels(r) ==
    Values(r)

\* every file:name of Object.entries(models), in file order then key order
FileModels(m) ==
    Flatten([i \in DOMAIN m |-> [j \in DOMAIN m[i].v |-> <<m[i].k, m[i].v[j].k>>]])

RECURSIVE Count(_, _)
Count(acc, fileModels) ==
    IF fileModels = <<>>
    THEN acc
    ELSE LET name == Head(fileModels)[2]
         IN  Count(Put(acc, name, IF Has(acc, name) THEN Get(acc, name) + 1 ELSE 1), Tail(fileModels))

\* the frequency map of getConflicts: bare name -> count
FrequencyMap(st, cfg) ==
    LET shadowedByMapper == GetShadowedModels(st.remapper)
        extendedModels   == GetExtendedModels(cfg.extended)
        counted ==
            SelectSeq(FileModels(st.models),
                      LAMBDA fm : /\ ~Contains(extendedModels, fm)
                                  /\ (cfg.crossFileRelations => ~Contains(shadowedByMapper, fm)))
    IN  Count(<<>>, counted)

\* matching[modelName].push(modelFileName) over doubledModels
RECURSIVE Matching(_, _)
Matching(acc, fileModels) ==
    IF fileModels = <<>>
    THEN acc
    ELSE LET fm == Head(fileModels)
         IN  Matching(Put(acc, fm[2], (IF Has(acc, fm[2]) THEN Get(acc, fm[2]) ELSE <<>>) \o <<fm>>),
                      Tail(fileModels))

\* endsWithAny(`file:name`, duplicated): a case-insensitive suffix test
EndsWithAny(fm, duplicated) ==
    \E i \in DOMAIN duplicated : ToLowerCase(fm[2]) = ToLowerCase(duplicated[i])

PairsOf_Adjacent(filesWithModel, en) ==
    LET type(fm) == IF Has(en, fm) THEN "enum" ELSE "model"
        n == Len(filesWithModel)
    IN  [i \in 1 .. (n - 1) |->
            [n1 |-> filesWithModel[i], t1 |-> type(filesWithModel[i]),
             n2 |-> filesWithModel[i + 1], t2 |-> type(filesWithModel[i + 1])]]

\* pairs i < j of one matching[] entry, in the order of the nested loops
PairsOf(filesWithModel, en) ==
    LET type(fm) == IF Has(en, fm) THEN "enum" ELSE "model"
        n == Len(filesWithModel)
        row(i) ==
            [d \in 1 .. (n - i) |->
                [n1 |-> filesWithModel[i], t1 |-> type(filesWithModel[i]),
                 n2 |-> filesWithModel[i + d], t2 |-> type(filesWithModel[i + d])]]
    IN  Flatten([i \in 1 .. n |-> row(i)])

\* getConflicts after its applyPatches call: the list of conflict pairs
Conflicts(st, cfg) ==
    LET shadowedByMapper == GetShadowedModels(st.remapper)
        extendedModels   == GetExtendedModels(cfg.extended)
        frequencyMap     == FrequencyMap(st, cfg)
        flattened ==
            SelectSeq(FileModels(st.models),
                      LAMBDA fm : ~Contains(shadowedByMapper, fm) /\ ~Contains(extendedModels, fm))
        duplicated ==
            Keys(SelectSeq(frequencyMap, LAMBDA e : e.v > 1))
        doubledModels ==
            SelectSeq(flattened, LAMBDA fm : EndsWithAny(fm, duplicated))
        matching ==
            Matching(<<>>, doubledModels)
    IN  Flatten([i \in DOMAIN matching |-> PairsOf(matching[i].v, st.enums)])

----------------------------------------------------------------------------
(* Schema Emitter *)

\* pluralize(modelName.toLowerCase(), 2, false)
Pluralize(name) ==
    CASE ToLowerCase(name) = "user"   -> "users"
      [] ToLowerCase(name) = "post"   -> "posts"
      [] ToLowerCase(name) = "person" -> "people"
      [] ToLowerCase(name) = "topic"  -> "topics"
      [] ToLowerCase(name) = "role"   -> "roles"
      [] OTHER                        -> "members"

\* `${data.type}[]`
ListOf(name) ==
    CASE name = "User"   -> "User[]"
      [] name = "Post"   -> "Post[]"
      [] name = "Person" -> "Person[]"
      [] name = "Topic"  -> "Topic[]"
      [] name = "Role"   -> "Role[]"
      [] name = "user"   -> "user[]"
      [] OTHER           -> "Member[]"

\* createColumnsForShadowedModel: one list column per relation column that
\* refers to fileModel's bare name and is mapped to fileModel by the Remapper
CreateColumnsForShadowedModel(st, fileModel) ==
    LET shadowedColumns ==
            Keys(SelectSeq(st.remapper, LAMBDA e : e.v = fileModel))
        ref ==
            SelectSeq(GetReferredRelations(st.modelColumns, fileModel),
                      LAMBDA d : Contains(shadowedColumns, <<d.model[1], d.model[2], d.column.name>>))
    IN  [i \in DOMAIN ref |-> Col(Pluralize(ref[i].model[2]), ListOf(ref[i].model[2]), <<>>)]

\* the filter of createColumnsForExtendedModel: constraints.includes is an
\* exact match on a whole constraint token
KeptFromParent(column) ==
    /\ ~Contains(column.constraints, "@id")
    /\ ~Contains(column.constraints, "@relation")

\* createColumnsForExtendedModel throws when the parent has no column list
ExtendedParentMissing(st, extended, fileModel) ==
    ~GetColumns(st.modelColumns, Get(extended, fileModel)).def

CreateColumnsForExtendedModel(st, extended, fileModel) ==
    SelectSeq(Get(st.modelColumns, Get(extended, fileModel)).cols, KeptFromParent)

\* the entries of modelColumns generateSchema emits a model block for
EmittedModels(st, cfg) ==
    SelectSeq(st.modelColumns,
              LAMBDA e : /\ ~Contains(GetShadowedModels(st.remapper), e.k)
                         /\ ~Contains(GetExtendedModels(cfg.extended), e.k)
                         /\ e.v.def)

\* one line of a model body: `  ${name} ${type} ${constraints.join(" ")}`
Line(column) ==
    <<column.name, column.type, column.constraints>>

ColumnsToUse(st, cfg, fileModel, columns) ==
    columns
    \o (IF Contains(GetReplacementModels(st.remapper), fileModel)
        THEN CreateColumnsForShadowedModel(st, fileModel) ELSE <<>>)
    \o (IF Contains(GetModelsExtended(cfg.extended), fileModel)
        THEN CreateColumnsForExtendedModel(st, cfg.extended, fileModel) ELSE <<>>)

Block(kind, file, name, body) ==
    [kind |-> kind, file |-> file, name |-> name, body |-> body]

\* generateSchema: the model blocks, then the enum blocks; ok is FALSE when
\* the call throws instead of returning a document
GenerateSchema(st, cfg) ==
    LET emitted == EmittedModels(st, cfg)
        throws ==
            \E i \in DOMAIN emitted :
                /\ Contains(GetModelsExtended(cfg.extended), emitted[i].k)
                /\ ExtendedParentMissing(st, cfg.extended, emitted[i].k)
        modelBlocks ==
            [i \in DOMAIN emitted |->
                LET cols == ColumnsToUse(st, cfg, emitted[i].k, emitted[i].v.cols)
                IN  Block("model", emitted[i].k[1], emitted[i].k[2],
                          [j \in DOMAIN cols |-> Line(cols[j])])]
        enumBlocks ==
            [i \in DOMAIN st.enums |->
                Block("enum", st.enums[i].k[1], st.enums[i].k[2],
                      [j \in DOMAIN st.enums[i].v.values |-> <<st.enums[i].v.values[j], "", <<>> >>])]
    IN  IF throws
        THEN [ok |-> FALSE, blocks |-> <<>>]
        ELSE [ok |-> TRUE, blocks |-> modelBlocks \o enumBlocks]

----------------------------------------------------------------------------
(* Fragments and configurations the commands are run on *)

IdCol ==
    Col("id", "Int", <<"@id">>)

NameCol ==
    Col("name", "String", <<>>)

TitleCol ==
    Col("title", "String", <<"@unique">>)

\* `author User @relation(fields: [authorId], references: [id])`, split on " "
AuthorCol ==
    Col("author", "User", <<"@relation(fields:", "[authorId],", "references:", "[id])">>)

EditorCol ==
    Col("editor", "User", <<"@relation(fields:", "[editorId],", "references:", "[id])">>)

\* `owner User @relation`
OwnerCol ==
    Col("owner", "User", <<"@relation">>)

\* a column typed with an enum
RoleCol ==
    Col("role", "Role", <<>>)

\* `grant Role @relation(fields: [grantId], references: [id])`
GrantCol ==
    Col("grant", "Role", <<"@relation(fields:", "[grantId],", "references:", "[id])">>)

Fragment(file, decls) ==
    [file |-> file, decls |-> decls]

Entry(k, val) ==
    [k |-> k, v |-> val]

\* three files declare User; b:Post refers to User twice
BlogFragments ==
    << Fragment("a", << ModelDecl("User", <<IdCol, NameCol>>), ModelDecl("Person", <<IdCol>>) >>),
       Fragment("b", << ModelDecl("Post", <<IdCol, AuthorCol, EditorCol>>), ModelDecl("User", <<IdCol, NameCol>>) >>),
       Fragment("c", << ModelDecl("User", <<IdCol>>) >>) >>

\* no relation column anywhere; models and enums collide
PlainFragments ==
    << Fragment("a", << ModelDecl("User", <<IdCol, NameCol>>), EnumDecl("Role", <<"ADMIN", "GUEST">>),
                        ModelDecl("Person", <<IdCol>>) >>),
       Fragment("b", << EnumDecl("Role", <<"ROOT">>), ModelDecl("User", <<IdCol, RoleCol>>) >>),
       Fragment("c", << ModelDecl("User", <<IdCol>>), ModelDecl("Person", <<IdCol, RoleCol>>) >>) >>

\* c:Topic extends a:Post
ExtendedFragments ==
    << Fragment("a", << ModelDecl("User", <<IdCol, NameCol>>),
                        ModelDecl("Post", <<IdCol, TitleCol, AuthorCol, OwnerCol, NameCol>>) >>),
       Fragment("c", << ModelDecl("Topic", <<IdCol, RoleCol>>), ModelDecl("User", <<IdCol>>) >>) >>

\* an enum and a model share the name Role; one column is typed with the
\* enum, another is a relation to the model
MixedFragments ==
    << Fragment("a", << EnumDecl("Role", <<"ADMIN", "GUEST">>), ModelDecl("User", <<IdCol, RoleCol>>) >>),
       Fragment("b", << ModelDecl("Role", <<IdCol, NameCol>>) >>),
       Fragment("c", << ModelDecl("Post", <<IdCol, GrantCol>>) >>) >>

\* the relation column of b:Post comes before its last column
OrderFragments ==
    << Fragment("a", << ModelDecl("User", <<IdCol, NameCol>>) >>),
       Fragment("b", << ModelDecl("Post", <<IdCol, AuthorCol, TitleCol>>), ModelDecl("User", <<IdCol>>) >>) >>

Setup(fragments, excludeModels, relations, extended) ==
    [fragments |-> fragments, excludeModels |-> excludeModels,
     relations |-> relations, extended |-> extended]

Setups ==
    { Setup(BlogFragments, {}, <<>>, <<>>),
      Setup(BlogFragments, {}, << Entry(<<"b", "Post", "author">>, <<"a", "User">>) >>, <<>>),
      Setup(BlogFragments, {}, << Entry(<<"b", "Post", "author">>, <<"a", "User">>),
                              Entry(<<"b", "Post", "editor">>, <<"a", "Person">>) >>, <<>>),
      Setup(BlogFragments, {}, << Entry(<<"b", "Post", "author">>, <<"a", "User">>),
                              Entry(<<"b", "Post", "editor">>, <<"c", "User">>) >>, <<>>),
      Setup(PlainFragments, {}, <<>>, <<>>),
      Setup(PlainFragments, {<<"c", "User">>, <<"b", "Role">>}, <<>>, <<>>),
      Setup(MixedFragments, {}, << Entry(<<"c", "Post", "grant">>, <<"b", "Role">>) >>, <<>>),
      Setup(ExtendedFragments, {}, <<>>, << Entry(<<"c", "Topic">>, <<"a", "Post">>) >>) }

\* the names the user types at the rename prompt
NewNames ==
    {"Person", "Member", "User"}

----------------------------------------------------------------------------
(* State of the commands *)

St ==
    Store(models, modelColumns, enums, remapper)

NoPrompt ==
    [conflict |-> <<NoModel, NoModel>>, offered |-> {}, targets |-> {}]

NotWritten ==
    [ok |-> FALSE, blocks |-> <<>>]

\* processPromise undefined, nothing queued yet
NoPromise ==
    [state |-> "idle", callers |-> 0, returned |-> "-"]

ToolIdle ==
    /\ disk = <<>>
    /\ queue = <<>>
    /\ useExtensions = FALSE
    /\ repo = <<>>
    /\ tpc = NoPromise
    /\ passes = <<>>

\* processPromise undefined, in the given run of the program
NotGenerated(run) ==
    [state |-> "idle", callers |-> 0, run |-> run]

RegistryIdle ==
    /\ packages = <<>>
    /\ fsys = <<>>
    /\ writes = <<>>
    /\ gpc = NotGenerated(1)

\* the constructor, then load()
InitStore(setup, crossFileRelations) ==
    LET st == Load(setup.fragments, setup.excludeModels, setup.relations)
    IN  /\ models = st.models
        /\ modelColumns = st.modelColumns
        /\ enums = st.enums
        /\ remapper = st.remapper
        /\ solutions = <<>>
        /\ config = [crossFileRelations |-> crossFileRelations, extended |-> setup.extended,
                     includeFiles |-> setup.fragments, excludeModels |-> setup.excludeModels,
                     relations |-> setup.relations]
        /\ prompt = NoPrompt
        /\ written = NotWritten
        /\ applied = [calls |-> 0, len |-> 0]

SetStore(st) ==
    /\ models' = st.models
    /\ modelColumns' = st.modelColumns
    /\ enums' = st.enums
    /\ remapper' = st.remapper

----------------------------------------------------------------------------
(* The generate command: load, fixConflicts, writeSchema *)

InitLoop ==
    /\ \E setup \in Setups, crossFileRelations \in BOOLEAN :
            InitStore(setup, crossFileRelations)
    /\ pc = "fix"
    /\ ToolIdle
    /\ RegistryIdle

\* canFixCrossFileWithMapper is truthy for this reference
CanFix(r, ref) ==
    Has(r, <<ref.model[1], ref.model[2], ref.column.name>>)

\* the forEach over referred1: the remap actions it queues
MapperSuggestions(r, conflict, referred1) ==
    LET fixable == SelectSeq(referred1, LAMBDA ref : CanFix(r, ref))
    IN  [i \in DOMAIN fixable |->
            LET from == <<fixable[i].model[1], fixable[i].model[2], fixable[i].column.name>>
            IN  Solution(conflict.n1, Remap(from, Get(r, from), conflict.t1))]

\* the forEach over referred1: canMap as the last fixable reference leaves it
CanMap(r, conflict, referred1) ==
    LET fixable == SelectSeq(referred1, LAMBDA ref : CanFix(r, ref))
    IN  IF fixable = <<>>
        THEN <<FALSE, FALSE>>
        ELSE LET last == fixable[Len(fixable)]
                 res  == Get(r, <<last.model[1], last.model[2], last.column.name>>)
             IN  <<conflict.n1 = res, conflict.n2 = res>>

\* the sides the prompt of this iteration lets the user skip or rename
Offered(conflict, canMap) ==
    IF canMap[1] \/ canMap[2]
    THEN IF canMap[1] THEN {<<conflict.n2, conflict.t2>>} ELSE {<<conflict.n1, conflict.t1>>}
    ELSE {<<conflict.n1, conflict.t1>>, <<conflict.n2, conflict.t2>>}

\* the Remapper targets of the inbound relation references of both sides
InboundTargets(r, referred) ==
    {Get(r, <<ref.model[1], ref.model[2], ref.column.name>>) :
        ref \in {x \in Range(referred) : CanFix(r, x)}}

\* the prompt of one iteration and the action queued for its answer
Answer(st, conflict, referred1, referred2) ==
    LET queued  == MapperSuggestions(st.remapper, conflict, referred1)
        offered == Offered(conflict, CanMap(st.remapper, conflict, referred1))
    IN  /\ Len(solutions) + Len(queued) < MaxSolutions
        /\ \E side \in offered :
            \E action \in {Skip(side[2])} \cup {Rename(n, side[2]) : n \in NewNames} :
                solutions' = solutions \o queued \o <<Solution(side[1], action)>>
        /\ prompt' = [conflict |-> <<conflict.n1, conflict.n2>>,
                      offered |-> {side[1] : side \in offered},
                      targets |-> InboundTargets(st.remapper, referred1 \o referred2)]
        /\ pc' = "fix"

Resolve_NoFatalCheck(st, conflicts) ==
    IF conflicts = <<>>
    THEN /\ pc' = "done"
         /\ UNCHANGED <<solutions, prompt>>
    ELSE Answer(st, conflicts[1],
                GetReferredRelations(st.modelColumns, conflicts[1].n1),
                GetReferredRelations(st.modelColumns, conflicts[1].n2))

Resolve_DoneEarly(st, conflicts) ==
    IF Len(conflicts) <= 1
    THEN /\ pc' = "done"
         /\ UNCHANGED <<solutions, prompt>>
    ELSE LET conflict  == conflicts[1]
             referred1 == GetReferredRelations(st.modelColumns, conflict.n1)
             referred2 == GetReferredRelations(st.modelColumns, conflict.n2)
         IN  IF (referred1 # <<>> \/ referred2 # <<>>) /\ ~config.crossFileRelations
             THEN /\ pc' = "exit"
                  /\ UNCHANGED <<solutions, prompt>>
             ELSE Answer(st, conflict, referred1, referred2)

\* the body of fixConflicts after getConflicts returned
Resolve(st, conflicts) ==
    IF conflicts = <<>>
    THEN /\ pc' = "done"
         /\ UNCHANGED <<solutions, prompt>>
    ELSE LET conflict  == conflicts[1]
             referred1 == GetReferredRelations(st.modelColumns, conflict.n1)
             referred2 == GetReferredRelations(st.modelColumns, conflict.n2)
         IN  IF (referred1 # <<>> \/ referred2 # <<>>) /\ ~config.crossFileRelations
             THEN /\ pc' = "exit"
                  /\ UNCHANGED <<solutions, prompt>>
             ELSE Answer(st, conflict, referred1, referred2)

\* one call of fixConflicts(iterationCount): getConflicts (which applies the
\* queue), then done, the fatal exit, or one prompt and its answer
FixConflicts ==
    /\ pc = "fix"
    /\ SetStore(ApplyPatches(St, solutions))
    /\ applied' = [calls |-> applied.calls + 1, len |-> Len(solutions)]
    /\ Resolve(Store(models', modelColumns', enums', remapper'),
               Conflicts(Store(models', modelColumns', enums', remapper'), config))
    /\ UNCHANGED <<config, written, toolVars, regVars>>

\* writeSchema with an emitter free to print the blocks in either order
WriteSchema_AnyOrder ==
    /\ pc = "done"
    /\ LET doc == GenerateSchema(St, config)
       IN  \E reversed \in BOOLEAN :
            written' = IF reversed
                       THEN [doc EXCEPT !.blocks = [i \in DOMAIN doc.blocks |-> doc.blocks[Len(doc.blocks) + 1 - i]]]
                       ELSE doc
    /\ pc' = IF written'.ok THEN "written" ELSE "threw"
    /\ UNCHANGED <<models, modelColumns, enums, remapper, solutions, config, prompt, applied,
                   toolVars, regVars>>

\* parser.writeSchema() after fixConflicts resolved
WriteSchema ==
    /\ pc = "done"
    /\ written' = GenerateSchema(St, config)
    /\ pc' = IF written'.ok THEN "written" ELSE "threw"
    /\ UNCHANGED <<models, modelColumns, enums, remapper, solutions, config, prompt, applied,
                   toolVars, regVars>>

NextLoop ==
    \/ FixConflicts
    \/ WriteSchema

SpecLoop ==
    InitLoop /\ [][NextLoop]_vars

----------------------------------------------------------------------------
(* The engine's interface: suggest, applyPatches *)

EngineSetups ==
    { Setup(BlogFragments, {}, << Entry(<<"b", "Post", "author">>, <<"a", "User">>),
                                  Entry(<<"b", "Post", "editor">>, <<"c", "User">>) >>, <<>>),
      Setup(PlainFragments, {}, <<>>, <<>>),
      Setup(MixedFragments, {}, << Entry(<<"c", "Post", "grant">>, <<"b", "Role">>) >>, <<>>),
      Setup(ExtendedFragments, {}, <<>>, << Entry(<<"c", "Topic">>, <<"a", "Post">>) >>),
      Setup(OrderFragments, {}, <<>>, <<>>) }

\* new names given to rename and rename-rel
EngineNames ==
    {"Person", "User", "Post"}

InitEngine ==
    /\ \E setup \in EngineSetups : InitStore(setup, TRUE)
    /\ pc = "api"
    /\ ToolIdle
    /\ RegistryIdle

\* `this.enums[name] ? "enum" : "model"`, as the callers of suggest set item
ItemOf(en, key) ==
    IF Has(en, key) THEN "enum" ELSE "model"

\* the actions of the four types that can be suggested for key
ActionsFor(st, key) ==
    LET item     == ItemOf(st.enums, key)
        referred == GetReferredRelations(st.modelColumns, key)
    IN  {Skip(item)}
        \cup {Rename(n, item) : n \in EngineNames}
        \cup {RenameRel(n, item) : n \in EngineNames}
        \cup {Remap(<<ref.model[1], ref.model[2], ref.column.name>>, key, item) : ref \in Range(referred)}

\* parser.suggest(item, action), called as fixConflicts and the introspection
\* pass call it: on the store the last applyPatches left
Suggest ==
    /\ pc = "api"
    /\ applied.len = Len(solutions)
    /\ Len(solutions) < MaxQueue
    /\ \E key \in Range(FileModels(models)) :
        \E action \in ActionsFor(St, key) :
            solutions' = Append(solutions, Solution(key, action))
    /\ UNCHANGED <<models, modelColumns, enums, remapper, config, pc, prompt, written, applied,
                   toolVars, regVars>>

\* parser.applyPatches(), enhanced introspection off
CallApplyPatches ==
    /\ pc = "api"
    /\ applied.calls < MaxCalls
    /\ SetStore(ApplyPatches(St, solutions))
    /\ applied' = [calls |-> applied.calls + 1, len |-> Len(solutions)]
    /\ UNCHANGED <<solutions, config, pc, prompt, written, toolVars, regVars>>

NextEngine ==
    \/ Suggest
    \/ CallApplyPatches

SpecEngine ==
    InitEngine /\ [][NextEngine]_vars

----------------------------------------------------------------------------
(* Enhanced introspection: the rules applyPatches runs after the queue *)

\* a pattern mapped to a string: the new name of the table
StringAction(name) ==
    [kind |-> "string", name |-> name, attribute |-> "-"]

\* a pattern mapped to a callback that calls model.addAttribute(attribute),
\* sets model.name and returns the model
FunctionAction(name, attribute) ==
    [kind |-> "function", name |-> name, attribute |-> attribute]

\* Constraints.Model.MAP(tableName)
MAP(tableName) ==
    CASE tableName = "User" -> "@@map(User)"
      [] tableName = "Post" -> "@@map(Post)"
      [] tableName = "Person" -> "@@map(Person)"
      [] tableName = "Account" -> "@@map(Account)"
      [] tableName = "Member" -> "@@map(Member)"
      [] tableName = "Role" -> "@@map(Role)"
      [] OTHER -> "@@map(Topic)"

\* config.introspection.modelPatterns.$static, in the order of its entries
StaticPatterns ==
    { <<>>,
      << Entry("User", StringAction("Account")) >>,
      << Entry("Person", StringAction("Account")),
         Entry("Account", FunctionAction("Member", "@@schema")) >>,
      << Entry("Post", FunctionAction("Post", "@@index")) >> }

\* Object.keys(this.modelColumns).filter(k => k.split(":")[1] == tableName)
PossibleFiles(mc, tableName) ==
    SelectSeq(Keys(mc), LAMBDA key : key[2] = tableName)

\* the entries of $static that name a table of modelColumns, as the filter
\* of the for statement selects them before the first rule runs
MatchingPatterns(mc, patterns) ==
    SelectSeq(patterns, LAMBDA en : PossibleFiles(mc, en.k) # <<>>)

\* `this.modelColumns[possibleFile].some(...)` on a key without columns
AddAttributeThrows(mc, tableName) ==
    \E i \in DOMAIN mc : mc[i].k[2] = tableName /\ ~mc[i].v.def

\* addAttribute(attribute): the column is pushed to every key of the table
\* that does not have it, up to the first key the call throws on
AddAttribute(mc, tableName, attribute) ==
    LET stop == IF AddAttributeThrows(mc, tableName)
                THEN CHOOSE i \in DOMAIN mc :
                        /\ mc[i].k[2] = tableName /\ ~mc[i].v.def
                        /\ \A j \in 1..(i - 1) : ~(mc[j].k[2] = tableName /\ ~mc[j].v.def)
                ELSE Len(mc) + 1
    IN  [i \in DOMAIN mc |->
            IF /\ i < stop
               /\ mc[i].k[2] = tableName
               /\ \A c \in DOMAIN mc[i].v.cols : mc[i].v.cols[c].name # attribute
            THEN Entry(mc[i].k, Cols(Append(mc[i].v.cols, Col(attribute, "", <<>>))))
            ELSE mc[i]]

\* this.suggest(possibleFile, {type: "rename-rel", item: "model", newName})
\* for every key of the table
RECURSIVE SuggestRenames(_, _, _)
SuggestRenames(sols, keys, newName) ==
    IF keys = <<>> THEN sols
    ELSE SuggestRenames(Append(sols, Solution(Head(keys), RenameRel(newName, "model"))),
                        Tail(keys), newName)

\* the body of the $static loop for one entry: the action, the @@map
\* attribute, the suggestions
RunPattern(r, en) ==
    LET own      == IF en.v.kind = "function"
                    THEN AddAttribute(r.st.modelColumns, en.k, en.v.attribute)
                    ELSE r.st.modelColumns
        mapped   == AddAttribute(own, en.k, MAP(en.k))
        threw    == AddAttributeThrows(r.st.modelColumns, en.k)
    IN  IF r.threw THEN r
        ELSE IF threw /\ en.v.kind = "function"
        THEN [r EXCEPT !.st.modelColumns = own, !.fired = TRUE, !.threw = TRUE]
        ELSE IF threw
        THEN [r EXCEPT !.st.modelColumns = mapped, !.fired = TRUE, !.threw = TRUE]
        ELSE [r EXCEPT !.st.modelColumns = mapped, !.fired = TRUE,
                       !.sols = SuggestRenames(r.sols, PossibleFiles(mapped, en.k), en.v.name)]

RECURSIVE RunPatterns(_, _)
RunPatterns(r, ens) ==
    IF ens = <<>> THEN r ELSE RunPatterns(RunPattern(r, Head(ens)), Tail(ens))

\* one pass of applyPatches: the queue, then the rules; again tells whether
\* the pass ends in `return this.applyPatches()`
IntrospectionPass(st, sols, cfg) ==
    LET patched == ApplyPatches(st, sols)
        idle    == [st |-> patched, sols |-> sols, fired |-> FALSE, threw |-> FALSE]
        r       == IF cfg.enhancedIntrospection
                   THEN RunPatterns(idle, MatchingPatterns(patched.modelColumns, cfg.introspection))
                   ELSE idle
    IN  [st |-> r.st, sols |-> r.sols, threw |-> r.threw, again |-> r.fired /\ ~r.threw]

IntrospectSetups ==
    { Setup(BlogFragments, {}, << Entry(<<"b", "Post", "author">>, <<"a", "User">>) >>, <<>>),
      Setup(OrderFragments, {}, <<>>, <<>>) }

\* the constructor and load(), with the introspection part of the configuration
InitIntrospect ==
    /\ \E setup \in IntrospectSetups, patterns \in StaticPatterns, enhanced \in BOOLEAN :
        LET st == Load(setup.fragments, setup.excludeModels, setup.relations)
        IN  /\ models = st.models
            /\ modelColumns = st.modelColumns
            /\ enums = st.enums
            /\ remapper = st.remapper
            /\ config = [crossFileRelations |-> TRUE, extended |-> setup.extended,
                         includeFiles |-> setup.fragments, excludeModels |-> setup.excludeModels,
                         relations |-> setup.relations,
                         enhancedIntrospection |-> enhanced, introspection |-> patterns]
    /\ solutions = <<>>
    /\ prompt = NoPrompt
    /\ written = NotWritten
    /\ applied = [calls |-> 0, len |-> 0]
    /\ pc = "api"
    /\ ToolIdle
    /\ RegistryIdle

\* parser.applyPatches(): one pass, called through the interface or by the
\* pass before it
CallIntrospectionPass ==
    /\ pc \in {"api", "again"}
    /\ applied.calls < MaxCalls
    /\ LET r == IntrospectionPass(St, solutions, config)
       IN  /\ SetStore(r.st)
           /\ solutions' = r.sols
           /\ pc' = IF r.threw THEN "threw" ELSE IF r.again THEN "again" ELSE "api"
           /\ applied' = [calls |-> applied.calls + 1, len |-> Len(r.sols)]
    /\ UNCHANGED <<config, prompt, written, toolVars, regVars>>

NextIntrospect ==
    \/ Suggest
    \/ CallIntrospectionPass

SpecIntrospect ==
    InitIntrospect /\ [][NextIntrospect]_vars

----------------------------------------------------------------------------
(* Generation Toolchain: file content is a sequence of atoms, "NL" the line *)
(* break; a literal anchor or payload is a sequence of atoms               *)

NL ==
    "NL"

\* SAFE_NULL_STRING
SAFE_NULL_STRING ==
    <<"<NULL>">>

\* validString(checked)
ValidString(checked) ==
    checked # <<>> /\ checked # SAFE_NULL_STRING

\* position (from 1) of the first occurrence of pat at or after i, 0 if none
IndexFrom(text, pat, i) ==
    LET hits == {j \in i .. (Len(text) - Len(pat) + 1) : SubSeq(text, j, j + Len(pat) - 1) = pat}
    IN  IF hits = {} THEN 0 ELSE CHOOSE j \in hits : \A h \in hits : j <= h

\* new RegExp(escapeRegex(pat), "gms").test(text) on a fresh RegExp
Test(text, pat) ==
    IndexFrom(text, pat, 1) # 0

\* regex.test(text) on a RegExp with the g flag: the search starts at
\* lastIndex, which the call leaves behind the match, or at 0 on failure
RegexTest(text, pat, lastIndex) ==
    LET at == IF lastIndex > Len(text) THEN 0 ELSE IndexFrom(text, pat, lastIndex + 1)
    IN  [found |-> at # 0, lastIndex |-> IF at = 0 THEN 0 ELSE at + Len(pat) - 1]

\* text.split(pat)
RECURSIVE Split(_, _)
Split(text, pat) ==
    LET at == IndexFrom(text, pat, 1)
    IN  IF at = 0
        THEN <<text>>
        ELSE <<SubSeq(text, 1, at - 1)>> \o Split(SubSeq(text, at + Len(pat), Len(text)), pat)

\* parts.join(sep)
RECURSIVE Join(_, _)
Join(parts, sep) ==
    IF parts = <<>>
    THEN <<>>
    ELSE IF Len(parts) = 1
         THEN parts[1]
         ELSE parts[1] \o sep \o Join(Tail(parts), sep)

\* lines.filter(line => regex.test(line))[0]: the position (from 1) of the
\* first line the stateful test accepts, 0 if it accepts none
RECURSIVE FirstAccepted(_, _, _, _)
FirstAccepted(lines, pat, lastIndex, i) ==
    IF i > Len(lines)
    THEN 0
    ELSE LET res == RegexTest(lines[i], pat, lastIndex)
         IN  IF res.found THEN i ELSE FirstAccepted(lines, pat, res.lastIndex, i + 1)

\* lines.indexOf(item), counted from 0
IndexOf(lines, item) ==
    (CHOOSE j \in DOMAIN lines : lines[j] = item /\ \A h \in DOMAIN lines : lines[h] = item => j <= h) - 1

\* lines.slice(0, index) and lines.slice(index) for index >= 0
SliceTo(lines, index) ==
    SubSeq(lines, 1, IF index > Len(lines) THEN Len(lines) ELSE index)

SliceFrom(lines, index) ==
    SubSeq(lines, (IF index > Len(lines) THEN Len(lines) ELSE index) + 1, Len(lines))

\* case EditStrategy.REGEX; ok is FALSE where the code runs `continue`
StrategyRegex(text, from, to, ammend, lastIndex) ==
    LET lines == Split(text, <<NL>>)
        first == FirstAccepted(lines, from, lastIndex, 1)
    IN  IF first = 0
        THEN [ok |-> FALSE, text |-> text]
        ELSE LET index == IndexOf(lines, lines[first]) + ammend
             IN  [ok |-> TRUE,
                  text |-> Join(SliceTo(lines, index), <<NL>>) \o <<NL>> \o to \o <<NL>>
                           \o Join(SliceFrom(lines, index), <<NL>>)]

\* case EditStrategy.JOIN: text.split(regex).join(`${to}${from}`)
StrategyJoin(text, from, to) ==
    Join(Split(text, from), to \o from)

\* case EditStrategy.REPLACE: text.replace(regex, `${from}${to}`)
StrategyReplace(text, from, to) ==
    Join(Split(text, from), from \o to)

\* the sentinel comment "// Exit Types" and the joined usedTypes
ExitTypes ==
    "#"

UsedTypes ==
    <<"T">>

\* the callbacks given to appendContent, by name
\*   exitTypes: parser.ts 2077-2079, the prologue guarded by the sentinel
\*   context:   parser.ts 2066-2068, rebuilds an Args type ("m" without the
\*              context field, "M" with it) with one context field
\*   remove:    a callback that returns the empty string, `() => ""`
Callback(fn, match) ==
    CASE fn = "exitTypes" ->
            LET at == IndexFrom(match, <<ExitTypes>>, 1)
            IN  IF at # 0
                THEN UsedTypes \o <<NL, ExitTypes>> \o SubSeq(match, at + 1, Len(match))
                ELSE UsedTypes \o <<NL, ExitTypes, NL>>
      [] fn = "context" ->
            <<"M">>
      [] fn = "remove" ->
            <<>>
      [] OTHER -> match

\* text.replace(from, (match, ...g) => to(match, ...g)) for a RegExp that
\* matches one atom of from.atoms at a time, with the g flag
ReplaceWith(text, atoms, fn) ==
    Flatten([i \in DOMAIN text |->
                IF text[i] \in atoms THEN Callback(fn, <<text[i]>>) ELSE <<text[i]>>])

\* an anchor (findLine) or payload (appendContent): a string, a RegExp
\* matching single atoms, a callback, or the default SAFE_NULL_STRING
Str(text) ==
    [kind |-> "string", text |-> text, atoms |-> {}, fn |-> "-"]

Rx(atoms) ==
    [kind |-> "regex", text |-> <<>>, atoms |-> atoms, fn |-> "-"]

Fn(fn) ==
    [kind |-> "function", text |-> <<>>, atoms |-> {}, fn |-> fn]

\* `typeof x == "string" ? x : SAFE_NULL_STRING`
AsString(x) ==
    IF x.kind = "string" THEN x.text ELSE SAFE_NULL_STRING

\* EditTransactionBlock and EditTransaction
EditBlock(strategy, from, to, ammend, ignoreExtensions) ==
    [strategy |-> strategy, from |-> from, to |-> to, ammend |-> ammend,
     ignoreExtensions |-> ignoreExtensions]

EditTransaction(changedAsset, blocks) ==
    [changedAsset |-> changedAsset, blocks |-> blocks]

\* the state of one pass: the transactionRepository and the file operations
\* and folds of the pass, in order
Pass(r, log) ==
    [repo |-> r, log |-> log]

\* useTransactionRepository(requestedKey): the file is read when the cached
\* text is missing or empty
UseTransactionRepository(ps, dsk, key) ==
    IF ~Has(ps.repo, key) \/ Get(ps.repo, key) = <<>>
    THEN Pass(Put(ps.repo, key, dsk[key]), Append(ps.log, <<"read", key>>))
    ELSE ps

\* updateTransactionRepository(assetPath, text)
UpdateTransactionRepository(ps, key, text) ==
    Pass(Put(ps.repo, key, text), Append(ps.log, <<"fold", key>>))

\* the body of the loop without the test for the payload in the snapshot
ProcessBlock_NoPayloadTest(ps, dsk, assetPath, block) ==
    LET from     == block.from
        to       == block.to
        strategy == block.strategy
        loaded   == UseTransactionRepository(ps, dsk, assetPath)
        snapshot == Get(loaded.repo, assetPath)
        anchor   == RegexTest(snapshot, AsString(from), 0)
    IN  IF strategy # "REPLACE_FULL" /\ from.kind # "string" /\ to.kind # "string"
        THEN UpdateTransactionRepository(loaded, assetPath, ReplaceWith(snapshot, from.atoms, to.fn))
        ELSE IF strategy # "REPLACE_FULL"
                /\ (~ValidString(AsString(from)) \/ ~ValidString(AsString(to)) \/ strategy = "NONE")
        THEN ps
        ELSE IF strategy # "REPLACE_FULL" /\ ~anchor.found
        THEN loaded
        ELSE CASE strategy = "REGEX" ->
                    LET res == StrategyRegex(snapshot, from.text, to.text, block.ammend, anchor.lastIndex)
                    IN  IF res.ok
                        THEN UpdateTransactionRepository(loaded, assetPath, res.text)
                        ELSE loaded
               [] strategy = "JOIN" ->
                    UpdateTransactionRepository(loaded, assetPath, StrategyJoin(snapshot, from.text, to.text))
               [] strategy = "REPLACE" ->
                    UpdateTransactionRepository(loaded, assetPath, StrategyReplace(snapshot, from.text, to.text))
               [] strategy = "REPLACE_FULL" ->
                    UpdateTransactionRepository(loaded, assetPath,
                        IF to.kind = "function" THEN Callback(to.fn, snapshot) \o snapshot ELSE snapshot)
               [] OTHER ->
                    UpdateTransactionRepository(loaded, assetPath, snapshot)

\* the body of `for (const block of blocks)`
ProcessBlock(ps, dsk, assetPath, block) ==
    LET from     == block.from
        to       == block.to
        strategy == block.strategy
        loaded   == UseTransactionRepository(ps, dsk, assetPath)
        snapshot == Get(loaded.repo, assetPath)
        anchor   == RegexTest(snapshot, AsString(from), 0)
    IN  IF strategy # "REPLACE_FULL" /\ from.kind # "string" /\ to.kind # "string"
        THEN UpdateTransactionRepository(loaded, assetPath, ReplaceWith(snapshot, from.atoms, to.fn))
        ELSE IF strategy # "REPLACE_FULL"
                /\ (~ValidString(AsString(from)) \/ ~ValidString(AsString(to)) \/ strategy = "NONE")
        THEN ps
        ELSE IF strategy # "REPLACE_FULL" /\ Test(snapshot, AsString(to))
        THEN loaded
        ELSE IF strategy # "REPLACE_FULL" /\ ~anchor.found
        THEN loaded
        ELSE CASE strategy = "REGEX" ->
                    LET res == StrategyRegex(snapshot, from.text, to.text, block.ammend, anchor.lastIndex)
                    IN  IF res.ok
                        THEN UpdateTransactionRepository(loaded, assetPath, res.text)
                        ELSE loaded
               [] strategy = "JOIN" ->
                    UpdateTransactionRepository(loaded, assetPath, StrategyJoin(snapshot, from.text, to.text))
               [] strategy = "REPLACE" ->
                    UpdateTransactionRepository(loaded, assetPath, StrategyReplace(snapshot, from.text, to.text))
               [] strategy = "REPLACE_FULL" ->
                    UpdateTransactionRepository(loaded, assetPath,
                        IF to.kind = "function" THEN Callback(to.fn, snapshot) \o snapshot ELSE snapshot)
               [] OTHER ->
                    UpdateTransactionRepository(loaded, assetPath, snapshot)

RECURSIVE ProcessBlocks(_, _, _, _)
ProcessBlocks(ps, dsk, assetPath, blocks) ==
    IF blocks = <<>>
    THEN ps
    ELSE ProcessBlocks(ProcessBlock(ps, dsk, assetPath, Head(blocks)), dsk, assetPath, Tail(blocks))

\* the body of `while (this.queue.length > 0)` for the popped transaction
ProcessTransaction(ps, dsk, transaction, useExt) ==
    IF ~ValidString(<<transaction.changedAsset>>)
    THEN ps
    ELSE ProcessBlocks(ps, dsk, transaction.changedAsset,
                       IF useExt
                       THEN SelectSeq(transaction.blocks, LAMBDA b : b.ignoreExtensions)
                       ELSE transaction.blocks)

\* the while loop: this.queue.pop() until the queue is empty
RECURSIVE ProcessQueue(_, _, _, _)
ProcessQueue(ps, dsk, q, useExt) ==
    IF q = <<>>
    THEN ps
    ELSE ProcessQueue(ProcessTransaction(ps, dsk, q[Len(q)], useExt), dsk, SubSeq(q, 1, Len(q) - 1), useExt)

\* `for (const [file, content] of Object.entries(transactionRepository))
\*      await fs.writeFile(file, content)`
RECURSIVE WriteFiles(_, _, _)
WriteFiles(dsk, log, entries) ==
    IF entries = <<>>
    THEN [disk |-> dsk, log |-> log]
    ELSE WriteFiles([dsk EXCEPT ![Head(entries).k] = Head(entries).v],
                    Append(log, <<"write", Head(entries).k>>), Tail(entries))

----------------------------------------------------------------------------
(* Runs of the toolchain on the generated client files *)

Assets ==
    {"TYPES", "INDEX"}

\* the generated files before the first run; the last has an empty index file
Disks ==
    { [a \in Assets |-> IF a = "TYPES" THEN <<"h", NL, "u", NL, "m">> ELSE <<"u", "x", NL, "m", "u">>],
      [a \in Assets |-> IF a = "TYPES" THEN <<"u", NL, "m">> ELSE <<"x", NL, "u">>],
      [a \in Assets |-> IF a = "TYPES" THEN <<"h", NL, "m">> ELSE <<>>] }

\* findLine("$use", 1) with the $unuse declaration (parser.ts 1891-1901)
UnuseBlock ==
    EditBlock("REGEX", Str(<<"u">>), Str(<<"p">>), 1, TRUE)

\* the usedTypes prologue (parser.ts 2073-2081)
ExitTypesBlock ==
    EditBlock("REPLACE_FULL", Rx({"h", "u", "m", "M"}), Fn("exitTypes"), 0, TRUE)

\* the middlewareContext rewrite of the Args types (parser.ts 2060-2069)
ContextBlock ==
    EditBlock("REPLACE_UNSAFE", Rx({"m", "M"}), Fn("context"), 0, TRUE)

\* string blocks of the remaining strategies
LineBlock ==
    EditBlock("REGEX", Str(<<"u">>), Str(<<"q">>), 0, FALSE)

JoinBlock ==
    EditBlock("JOIN", Str(<<"u">>), Str(<<"q">>), 0, TRUE)

ReplaceBlock ==
    EditBlock("REPLACE", Str(<<"u">>), Str(<<"q">>), 0, FALSE)

\* a block as createBlock() leaves it, and one with only its strategy unset
DefaultBlock ==
    EditBlock("NONE", Str(SAFE_NULL_STRING), Str(SAFE_NULL_STRING), 0, FALSE)

NoneBlock ==
    EditBlock("NONE", Rx({"m", "M"}), Fn("context"), 0, TRUE)

\* a callback block that removes what its anchor matches, the line break and
\* the other text of the index file
RemoveBlock ==
    EditBlock("REPLACE_UNSAFE", Rx({"x", "u", NL}), Fn("remove"), 0, TRUE)

Transactions ==
    { EditTransaction("TYPES", <<UnuseBlock>>),
      EditTransaction("TYPES", <<ExitTypesBlock>>),
      EditTransaction("TYPES", <<ContextBlock, DefaultBlock>>),
      EditTransaction("TYPES", <<LineBlock>>),
      EditTransaction("INDEX", <<JoinBlock>>),
      EditTransaction("INDEX", <<ReplaceBlock>>),
      EditTransaction("INDEX", <<NoneBlock>>),
      EditTransaction("INDEX", <<RemoveBlock>>),
      EditTransaction("<NULL>", <<UnuseBlock>>) }

StoreIdle ==
    /\ models = <<>>
    /\ modelColumns = <<>>
    /\ enums = <<>>
    /\ remapper = <<>>
    /\ solutions = <<>>
    /\ config = [crossFileRelations |-> FALSE, extended |-> <<>>,
                 includeFiles |-> <<>>, excludeModels |-> {}, relations |-> <<>>]
    /\ pc = "idle"
    /\ prompt = NoPrompt
    /\ written = NotWritten
    /\ applied = [calls |-> 0, len |-> 0]

InitToolchain ==
    /\ disk \in Disks
    /\ queue = <<>>
    /\ useExtensions \in BOOLEAN
    /\ repo = <<>>
    /\ tpc = NoPromise
    /\ passes = <<>>
    /\ StoreIdle
    /\ RegistryIdle

\* queueEditTransaction(transaction)
QueueEditTransaction ==
    /\ Len(queue) < MaxTransactions
    /\ \E transaction \in Transactions :
            queue' = IF tpc.state = "idle" THEN Append(queue, transaction) ELSE queue
    /\ tpc' = [tpc EXCEPT !.returned = IF tpc.state = "idle" THEN "true" ELSE "false"]
    /\ UNCHANGED <<disk, useExtensions, repo, passes, storeVars, regVars>>

\* process() without the test of processPromise: a call that finds a pass in
\* flight runs a pass of its own
Process_SecondPass ==
    /\ tpc.callers < MaxCallers
    /\ tpc' = [tpc EXCEPT !.state = "running", !.callers = @ + 1]
    /\ IF tpc.state = "idle"
       THEN UNCHANGED <<disk, queue, repo, passes>>
       ELSE LET ps == ProcessQueue(Pass(<<>>, <<>>), disk, queue, useExtensions)
                w  == WriteFiles(disk, ps.log, ps.repo)
            IN  /\ disk' = w.disk
                /\ repo' = ps.repo
                /\ passes' = Append(passes, [queued |-> queue, before |-> disk, after |-> w.disk, log |-> w.log])
                /\ queue' = <<>>
    /\ UNCHANGED <<useExtensions, storeVars, regVars>>

\* process(): the first call creates processPromise and starts the pass, a
\* later call returns the processPromise it finds
Process ==
    /\ tpc.callers < MaxCallers
    /\ tpc' = [tpc EXCEPT !.state = IF @ = "idle" THEN "running" ELSE @, !.callers = @ + 1]
    /\ UNCHANGED <<disk, queue, useExtensions, repo, passes, storeVars, regVars>>

\* the pass of the promise executor, up to resolve()
FinishPass ==
    /\ tpc.state = "running"
    /\ LET ps == ProcessQueue(Pass(<<>>, <<>>), disk, queue, useExtensions)
           w  == WriteFiles(disk, ps.log, ps.repo)
       IN  /\ disk' = w.disk
           /\ repo' = ps.repo
           /\ passes' = Append(passes, [queued |-> queue, before |-> disk, after |-> w.disk, log |-> w.log])
    /\ queue' = <<>>
    /\ tpc' = [tpc EXCEPT !.state = "resolved"]
    /\ UNCHANGED <<useExtensions, storeVars, regVars>>

\* the program ends and is started again on the files it left: a new
\* GenerationToolchain instance
Restart ==
    /\ tpc.state = "resolved"
    /\ Len(passes) < MaxPasses
    /\ queue' = <<>>
    /\ repo' = <<>>
    /\ tpc' = NoPromise
    /\ UNCHANGED <<disk, useExtensions, passes, storeVars, regVars>>

NextToolchain ==
    \/ QueueEditTransaction
    \/ Process
    \/ FinishPass
    \/ Restart

SpecToolchain ==
    InitToolchain /\ [][NextToolchain]_vars

----------------------------------------------------------------------------
(* Middleware / Extension Toolchain: the feature registry and its files *)

\* features left out of featureNames
ReservedNames ==
    {"all", "default"}

Feature(identifier, code) ==
    [identifier |-> identifier, code |-> code]

\* defineMiddleware(pack, name, code) / defineExtension(pack, name, code)
DefineFeature(pkgs, pack, name, code) ==
    IF Has(pkgs, pack)
    THEN Put(pkgs, pack, Append(Get(pkgs, pack), Feature(name, code)))
    ELSE Put(pkgs, pack, <<Feature(name, code)>>)

\* `${identifier}.js` and path.parse(dirent).name
FileOf(identifier) ==
    <<identifier, "js">>

ParsedName(file) ==
    file[1]

\* crypto.createHash('sha256').update(content).digest('hex')
Sha256(content) ==
    <<"sha256", content>>

NeedsWrite_Always(current, code) ==
    TRUE

\* `currentHex == newHex` is false: the body is written
NeedsWrite(current, code) ==
    Sha256(current) # Sha256(code)

\* a package directory: index.d.ts, index.js and generated/
PackageDir(dts, js, generated) ==
    [dts |-> dts, js |-> js, generated |-> generated]

\* the state of one generate(): the directory, the file operations so far,
\* and whether the executor has thrown
Gen(fs, log, threw) ==
    [fs |-> fs, log |-> log, threw |-> threw]

Op(op, pack, file) ==
    [op |-> op, pack |-> pack, file |-> file]

\* fs.writeFile of a feature body under generated/
WriteBody(g, pack, feature) ==
    LET dir == Get(g.fs, pack)
    IN  Gen(Put(g.fs, pack, [dir EXCEPT !.generated = Put(@, FileOf(feature.identifier), feature.code)]),
            Append(g.log, Op("body", pack, FileOf(feature.identifier))),
            g.threw)

RECURSIVE WriteBodies(_, _, _)
WriteBodies(g, pack, features) ==
    IF features = <<>>
    THEN g
    ELSE WriteBodies(WriteBody(g, pack, Head(features)), pack, Tail(features))

\* the loop over the features whose file readdir listed: readFile throws
\* when the file has been removed, the body is written on a hash mismatch
RECURSIVE CompareBodies(_, _, _)
CompareBodies(g, pack, features) ==
    IF features = <<>> \/ g.threw
    THEN g
    ELSE LET feature   == Head(features)
             generated == Get(g.fs, pack).generated
             file      == FileOf(feature.identifier)
         IN  IF ~Has(generated, file)
             THEN Gen(g.fs, g.log, TRUE)
             ELSE CompareBodies(IF NeedsWrite(Get(generated, file), feature.code)
                                THEN WriteBody(g, pack, feature)
                                ELSE g,
                                pack, Tail(features))

\* fs.rm of the files of generated/ that name no feature of featureNames
RemoveStale(g, pack, featureNames) ==
    LET dir   == Get(g.fs, pack)
        stale == SelectSeq(dir.generated, LAMBDA e : ~Contains(featureNames, ParsedName(e.k)))
    IN  Gen(Put(g.fs, pack,
                [dir EXCEPT !.generated = SelectSeq(@, LAMBDA e : Contains(featureNames, ParsedName(e.k)))]),
            g.log \o [i \in DOMAIN stale |-> Op("rm", pack, stale[i].k)],
            g.threw)

\* the body of `for (const pack of Object.entries(this.packages))`
GeneratePackage(g, pack, features) ==
    LET named        == SelectSeq(features, LAMBDA f : f.identifier \notin ReservedNames)
        featureNames == [i \in DOMAIN named |-> named[i].identifier]
        existing     == Has(g.fs, pack)
        made         == IF existing
                        THEN g
                        ELSE Gen(Put(g.fs, pack, PackageDir(<<>>, <<>>, <<>>)),
                                 Append(g.log, Op("mkdir", pack, <<>>)), g.threw)
        indexed      == Gen(Put(made.fs, pack,
                                [Get(made.fs, pack) EXCEPT !.dts = <<"index.d.ts", featureNames>>,
                                                           !.js = <<"index.js", featureNames>>]),
                            made.log \o <<Op("index", pack, <<"index", "d.ts">>),
                                          Op("index", pack, <<"index", "js">>)>>,
                            made.threw)
        paths        == Keys(Get(indexed.fs, pack).generated)
        listed       == SelectSeq(features, LAMBDA f : Contains(paths, FileOf(f.identifier)))
        unlisted     == SelectSeq(features, LAMBDA f : ~Contains(paths, FileOf(f.identifier)))
        compared     == CompareBodies(RemoveStale(indexed, pack, featureNames), pack, listed)
    IN  IF g.threw \/ featureNames = <<>>
        THEN g
        ELSE IF ~existing
        THEN WriteBodies(indexed, pack, features)
        ELSE IF compared.threw
        THEN compared
        ELSE WriteBodies(compared, pack, unlisted)

RECURSIVE GeneratePackages(_, _)
GeneratePackages(g, pkgs) ==
    IF pkgs = <<>>
    THEN g
    ELSE GeneratePackages(GeneratePackage(g, Head(pkgs).k, Head(pkgs).v), Tail(pkgs))

\* the executor of generate(): the directories of unregistered packages are
\* removed, then every registered package is materialized
GenerateAll(fs, pkgs) ==
    LET unregistered == SelectSeq(fs, LAMBDA e : ~Contains(Keys(pkgs), e.k))
        kept         == SelectSeq(fs, LAMBDA e : Contains(Keys(pkgs), e.k))
    IN  GeneratePackages(Gen(kept, [i \in DOMAIN unregistered |-> Op("rm", unregistered[i].k, <<>>)], FALSE),
                         pkgs)

----------------------------------------------------------------------------
(* Runs of the registry on node_modules/prisma-util/toolchain/middleware *)

PackageNames ==
    {"p", "q"}

FeatureNames ==
    {"f", "g", "all"}

Codes ==
    {"c1", "c2"}

InitRegistry ==
    /\ RegistryIdle
    /\ StoreIdle
    /\ ToolIdle

RECURSIVE Registered(_)
Registered(pkgs) ==
    IF pkgs = <<>> THEN 0 ELSE Len(Head(pkgs).v) + Registered(Tail(pkgs))

\* defineMiddleware, called before generate() as parser.ts calls it
DefineMiddleware ==
    /\ gpc.state = "idle"
    /\ Registered(packages) < MaxFeatures
    /\ \E pack \in PackageNames, name \in FeatureNames, code \in Codes :
            packages' = DefineFeature(packages, pack, name, code)
    /\ UNCHANGED <<fsys, writes, gpc, storeVars, toolVars>>

\* generate(): the first call runs the executor, a later call returns the
\* processPromise it finds; a thrown executor leaves the promise pending
Generate ==
    /\ gpc.callers < MaxCallers
    /\ IF gpc.state = "idle"
       THEN LET g == GenerateAll(fsys, packages)
            IN  /\ fsys' = g.fs
                /\ writes' = g.log
                /\ gpc' = [gpc EXCEPT !.state = IF g.threw THEN "threw" ELSE "resolved",
                                      !.callers = @ + 1]
       ELSE /\ gpc' = [gpc EXCEPT !.callers = @ + 1]
            /\ UNCHANGED <<fsys, writes>>
    /\ UNCHANGED <<packages, storeVars, toolVars>>

\* the program ends and is started again: a new registry on the same files
RestartRegistry ==
    /\ gpc.state \in {"resolved", "threw"}
    /\ gpc.run < MaxRuns
    /\ packages' = <<>>
    /\ writes' = <<>>
    /\ gpc' = NotGenerated(gpc.run + 1)
    /\ UNCHANGED <<fsys, storeVars, toolVars>>

NextRegistry ==
    \/ DefineMiddleware
    \/ Generate
    \/ RestartRegistry

SpecRegistry ==
    InitRegistry /\ [][NextRegistry]_vars

----------------------------------------------------------------------------
(* Claims *)

\* C1: applyPatches is idempotent: a further call with the same queue leaves
\* models, modelColumns, enums and the Remapper as the previous call left them.
C1_ApplyPatchesIdempotent ==
    [][(/\ applied.calls >= 1
        /\ applied.len = Len(solutions)
        /\ applied'.calls = applied.calls + 1) => St' = St]_vars

\* the FileModels of the store that are neither shadowed nor extended and
\* carry the bare name
Sharing(name) ==
    {fm \in Range(FileModels(models)) :
        /\ fm[2] = name
        /\ ~Contains(GetShadowedModels(remapper), fm)
        /\ ~Contains(GetExtendedModels(config.extended), fm)}

BareNames ==
    {fm[2] : fm \in Range(FileModels(models))}

\* C2: k FileModels (not shadowed, not extended) sharing a bare name give
\* exactly k*(k-1)/2 conflict pairs for it, one per unordered pair, and a name
\* held by one FileModel gives none.
C2_ConflictCompleteness ==
    LET conflicts == Conflicts(St, config)
    IN  \A name \in BareNames :
            LET group == Sharing(name)
                k     == Cardinality(group)
                pairs == {i \in DOMAIN conflicts : conflicts[i].n1[2] = name \/ conflicts[i].n2[2] = name}
            IN  /\ Cardinality(pairs) * 2 = k * (k - 1)
                /\ \A x, y \in group :
                        x # y => Cardinality({i \in pairs : {conflicts[i].n1, conflicts[i].n2} = {x, y}}) = 1

\* three FileModels share a name and three pairs are reported
C2_Witness ==
    /\ \E name \in BareNames : Cardinality(Sharing(name)) = 3
    /\ Len(Conflicts(St, config)) >= 3

\* the store is the one the last applyPatches call left for the whole queue
UpToDate ==
    applied.calls >= 1 /\ applied.len = Len(solutions)

InDocument(fileModel) ==
    \E i \in DOMAIN GenerateSchema(St, config).blocks :
        /\ GenerateSchema(St, config).blocks[i].file = fileModel[1]
        /\ GenerateSchema(St, config).blocks[i].name = fileModel[2]

InConflicts(fileModel) ==
    \E i \in DOMAIN Conflicts(St, config) :
        fileModel \in {Conflicts(St, config)[i].n1, Conflicts(St, config)[i].n2}

Absent(fileModel) ==
    /\ ~Contains(FileModels(models), fileModel)
    /\ ~Has(modelColumns, fileModel)
    /\ ~Has(enums, fileModel)
    /\ ~InDocument(fileModel)
    /\ ~InConflicts(fileModel)

\* a rename or rename-rel queued after position i installs the key again
InstalledAfter(i, fileModel) ==
    \E j \in DOMAIN solutions :
        /\ j > i
        /\ solutions[j].action.type \in {"rename", "rename-rel"}
        /\ <<solutions[j].key[1], solutions[j].action.newName>> = fileModel

\* C3 as stated: once skip(X) has been applied, X is absent from the store,
\* from the generated document and from the conflict pairs, whatever follows.
C3_SkipRemovesForever ==
    UpToDate =>
        \A i \in DOMAIN solutions :
            solutions[i].action.type = "skip" => Absent(solutions[i].key)

\* C3: once skip(X) has been applied, X is absent from models, modelColumns
\* and enums, from the generated document and from every conflict pair, as
\* long as no rename or rename-rel queued after the skip gives another model
\* of X's file the name of X.
C3_SkipRemoves ==
    UpToDate =>
        \A i \in DOMAIN solutions :
            (solutions[i].action.type = "skip" /\ ~InstalledAfter(i, solutions[i].key))
                => Absent(solutions[i].key)

\* a skip was applied, another action followed it, and the conflicts that
\* remain do not involve the skipped FileModel
C3_Witness ==
    /\ UpToDate
    /\ Len(solutions) = 2
    /\ solutions[1].action.type = "skip"
    /\ solutions[2].action.type = "rename"
    /\ ~InstalledAfter(1, solutions[1].key)
    /\ Absent(solutions[1].key)
    /\ Conflicts(St, config) # <<>>

\* the columns of the store, each with the FileModel that declares it
ColumnsIn(mc) ==
    {d \in UNION {{[model |-> e.k, column |-> c] : c \in Range(e.v.cols)} : e \in Range(mc)} : TRUE}

\* this step applies a queue that holds the one action rename-rel(A -> B) on
\* a model A that relation columns of other models are typed with
RenameRelStep ==
    /\ Len(solutions) = 1
    /\ solutions[1].action.type = "rename-rel"
    /\ solutions[1].action.item = "model"
    /\ solutions[1].action.newName # solutions[1].key[2]
    /\ GetColumns(modelColumns, solutions[1].key).def
    /\ GetReferredRelations(modelColumns, solutions[1].key) # <<>>
    /\ applied'.calls = applied.calls + 1

\* C4 as stated: after rename-rel(A -> B), file:B a free name, no column of
\* any model is typed A and at least one column is typed B.
C4_NoColumnTypedA ==
    [][(RenameRelStep /\ ~Has(modelColumns, <<solutions[1].key[1], solutions[1].action.newName>>)) =>
        /\ \A d \in ColumnsIn(modelColumns') : d.column.type # solutions[1].key[2]
        /\ \E d \in ColumnsIn(modelColumns') : d.column.type = solutions[1].action.newName]_vars

\* C4: after rename-rel(A -> B), B another name than A, no relation column
\* (one with an @relation constraint) of any model is typed A, and every
\* relation column typed A of a model other than A and other than the
\* FileModel file:B the rename installs is typed B; columns typed A without an
\* @relation constraint keep their type.
C4_RenameRelRepair ==
    [][RenameRelStep =>
        LET A      == solutions[1].key
            B      == solutions[1].action.newName
            before == ColumnsIn(modelColumns)
            after  == ColumnsIn(modelColumns')
        IN  /\ \A d \in after : IsRelation(d.column) => d.column.type # A[2]
            /\ \A d \in before :
                    (d.column.type = A[2] /\ d.model \notin {A, <<A[1], B>>}) =>
                        [d EXCEPT !.column.type = IF IsRelation(d.column) THEN B ELSE A[2]] \in after]_vars

\* a single rename-rel has been applied: a relation column of another model
\* is typed with the new name and none is typed with the old one
C4_Witness ==
    /\ UpToDate
    /\ Len(solutions) = 1
    /\ solutions[1].action.type = "rename-rel"
    /\ solutions[1].action.item = "model"
    /\ solutions[1].action.newName # solutions[1].key[2]
    /\ \E d \in ColumnsIn(modelColumns) :
            /\ IsRelation(d.column)
            /\ d.column.type = solutions[1].action.newName
            /\ d.model # <<solutions[1].key[1], solutions[1].action.newName>>
    /\ \A d \in ColumnsIn(modelColumns) :
            IsRelation(d.column) => d.column.type # solutions[1].key[2]
    /\ \E d \in ColumnsIn(modelColumns) :
            ~IsRelation(d.column) /\ d.column.type = solutions[1].key[2]

\* the first conflict of the store has an inbound relation reference on one
\* of its sides while crossFileRelations is off
FatalCaseIn(st) ==
    LET conflicts == Conflicts(st, config)
    IN  /\ conflicts # <<>>
        /\ \/ GetReferredRelations(st.modelColumns, conflicts[1].n1) # <<>>
           \/ GetReferredRelations(st.modelColumns, conflicts[1].n2) # <<>>
        /\ ~config.crossFileRelations

FatalCase ==
    FatalCaseIn(St)

\* C6: when the conflict being resolved has an inbound relation reference on
\* either side and crossFileRelations is off, fixConflicts exits: nothing is
\* queued for the conflict, the schema is not written, and no step follows.
C6_FatalExit ==
    [][/\ pc # "exit"
       /\ (pc = "fix" /\ FatalCaseIn(Store(models', modelColumns', enums', remapper'))) =>
            (pc' = "exit" /\ solutions' = solutions /\ written' = NotWritten)]_vars

\* the loop has exited on a conflict with an inbound relation reference
C6_Witness ==
    /\ pc = "exit"
    /\ FatalCase
    /\ written = NotWritten

\* C7: fixConflicts resolves, and writeSchema writes, only when getConflicts
\* returns no pair; while a pair remains the loop is still resolving (or has
\* exited) and nothing is written.
C7_DoneOnlyWithoutConflicts ==
    /\ (pc \in {"done", "written", "threw"} \/ written.ok) => Conflicts(St, config) = <<>>
    /\ (pc \in {"fix", "exit", "done"}) => written = NotWritten

\* the schema is written after at least one answer resolved the conflicts
C7_Witness ==
    /\ pc = "written"
    /\ written.ok
    /\ solutions # <<>>
    /\ Conflicts(St, config) = <<>>

\* a column that is an identifier column or a relation column
IsIdOrRelation(column) ==
    Contains(column.constraints, "@id") \/ IsRelation(column)

\* the part of the emitted body of child that follows its own columns and
\* the columns synthesized for shadowed models
CopiedFromParent(child) ==
    LET blocks == GenerateSchema(St, config).blocks
        i      == CHOOSE j \in DOMAIN blocks :
                      blocks[j].kind = "model" /\ <<blocks[j].file, blocks[j].name>> = child
        own    == Len(Get(modelColumns, child).cols)
                  + (IF Contains(GetReplacementModels(remapper), child)
                     THEN Len(CreateColumnsForShadowedModel(St, child)) ELSE 0)
    IN  SubSeq(blocks[i].body, own + 1, Len(blocks[i].body))

\* child is emitted and its extended parent has columns
Inherits(child) ==
    /\ Has(config.extended, child)
    /\ GetColumns(modelColumns, Get(config.extended, child)).def
    /\ GenerateSchema(St, config).ok
    /\ InDocument(child)

\* C8: the emitted body of a child with an extended parent P holds, after the
\* child's own lines, the columns of P that are neither identifier nor
\* relation columns, each once and in P's order, and no other column of P.
C8_ExtendedColumnsCopied ==
    \A child \in Range(FileModels(models)) :
        Inherits(child) =>
            LET kept == SelectSeq(Get(modelColumns, Get(config.extended, child)).cols,
                                  LAMBDA c : ~IsIdOrRelation(c))
            IN  CopiedFromParent(child) = [j \in DOMAIN kept |-> Line(kept[j])]

\* C10: with crossFileRelations on, when one side of the conflict is the
\* Remapper target of one of its inbound relation references and the other
\* side is not, the prompt offers the other side only: the mapped side is not
\* offered for skip or rename.
C10_MappedSideNotOffered ==
    config.crossFileRelations =>
        \A i \in {1, 2} :
            (prompt.conflict[i] \in prompt.targets /\ prompt.conflict[3 - i] \notin prompt.targets)
                => prompt.offered = {prompt.conflict[3 - i]}

\* C5: a fresh pass that runs the transactions of the pass before it again,
\* on the files that pass left, leaves every file as the earlier pass left it.
C5_ToolchainIdempotent ==
    \A i \in 1 .. (Len(passes) - 1) :
        passes[i + 1].queued = passes[i].queued => passes[i + 1].after = passes[i].after

\* every registered feature has its body file on disk with the code it was
\* registered with, and every package of the registry has features
UnchangedRegistry ==
    /\ packages # <<>>
    /\ \A i \in DOMAIN packages :
        /\ Has(fsys, packages[i].k)
        /\ \A j \in DOMAIN packages[i].v :
            LET generated == Get(fsys, packages[i].k).generated
                file      == FileOf(packages[i].v[j].identifier)
            IN  Has(generated, file) /\ Get(generated, file) = packages[i].v[j].code

BodyWrites(log) ==
    {i \in DOMAIN log : log[i].op = "body"}

\* C9: a generate() on a registry whose features all have their body file on
\* disk with the registered code writes no feature body: the only files it
\* writes are index.d.ts and index.js of the packages (it may still remove
\* the body of a feature with a reserved name).
C9_HashGatedWrites ==
    [][(gpc.state = "idle" /\ gpc'.state # "idle" /\ UnchangedRegistry) =>
        /\ BodyWrites(writes') = {}
        /\ \A i \in DOMAIN writes' : writes'[i].op \in {"index", "rm"}]_vars

\* a second run materialized the registry it found on disk: the index files
\* were written, no body was
C9_Witness ==
    /\ gpc.run = 2
    /\ gpc.state = "resolved"
    /\ UnchangedRegistry
    /\ BodyWrites(writes) = {}
    /\ \E i \in DOMAIN writes : writes[i].op = "index"
    /\ \E i \in DOMAIN packages : Len(packages[i].v) = 2

\* the keys of modelColumns and of enums
ColumnAndEnumKeys ==
    Range(Keys(modelColumns)) \cup Range(Keys(enums))

\* C11: every key file:name of modelColumns or of enums has an entry for name
\* in the model map of file, in every state of the resolution loop.
C11_KeysHaveModelEntry ==
    \A key \in ColumnAndEnumKeys :
        Has(models, key[1]) /\ Has(Get(models, key[1]), key[2])

\* the queue holds remap actions only
OnlyRemaps ==
    /\ solutions # <<>>
    /\ \A i \in DOMAIN solutions : solutions[i].action.type = "remap"

\* C12: applying remap actions deletes nothing: models, modelColumns and enums
\* are the same before and after the call, whatever the item of the actions,
\* and the Remapper holds the entry of each action's from key.
C12_RemapDeletesNothing ==
    [][(OnlyRemaps /\ solutions' = solutions /\ applied'.calls = applied.calls + 1) =>
        /\ models' = models
        /\ modelColumns' = modelColumns
        /\ enums' = enums
        /\ \A i \in DOMAIN solutions : Has(remapper', solutions[i].action.from)]_vars

\* the queue holds rename actions only
OnlyRenames ==
    /\ solutions # <<>>
    /\ \A i \in DOMAIN solutions : solutions[i].action.type = "rename"

\* the keys the queued renames take a model from or install a model under
RenameKeys ==
    {solutions[i].key : i \in DOMAIN solutions}
        \cup {<<solutions[i].key[1], solutions[i].action.newName>> : i \in DOMAIN solutions}

\* the relation columns of the model under key that are typed with name
RelationsTyped(mc, key, name) ==
    {c \in Range(GetColumns(mc, key).cols) : IsRelation(c) /\ c.type = name}

EntriesNaming(r, fileModel) ==
    {i \in DOMAIN r : <<r[i].k[1], r[i].k[2]>> = fileModel \/ r[i].v = fileModel}

\* the action applied last by a call of applyPatches is a rename of a model
\* to another name
LastIsModelRename ==
    /\ solutions # <<>>
    /\ solutions[Len(solutions)].action.type \in {"rename", "rename-rel"}
    /\ solutions[Len(solutions)].action.item = "model"
    /\ solutions[Len(solutions)].action.newName # solutions[Len(solutions)].key[2]

\* C14: Remapper entries follow renames: once the rename of file:Old to
\* file:New is applied, no Remapper entry names file:Old, neither as the model
\* of its key nor as its target.
C14_RemapperFollowsRename ==
    [][(LastIsModelRename /\ solutions' = solutions /\ applied'.calls = applied.calls + 1) =>
        EntriesNaming(remapper', solutions[Len(solutions)].key) = {}]_vars

\* the model blocks of the written document that emit fileModel
BlocksOf(fileModel) ==
    {i \in DOMAIN written.blocks :
        /\ written.blocks[i].kind = "model"
        /\ written.blocks[i].file = fileModel[1]
        /\ written.blocks[i].name = fileModel[2]}

\* C15: for every Remapper entry F:M.c -> G:N, the written document emits
\* column c of model F:M with the type N.
C15_RemappedColumnTyped ==
    pc = "written" =>
        \A e \in DOMAIN remapper :
            \A i \in BlocksOf(<<remapper[e].k[1], remapper[e].k[2]>>) :
                \A j \in DOMAIN written.blocks[i].body :
                    written.blocks[i].body[j][1] = remapper[e].k[3] =>
                        written.blocks[i].body[j][2] = remapper[e].v[2]

\* the number of events of the given kind on the asset in a pass log
Events(log, kind, asset) ==
    Cardinality({i \in DOMAIN log : log[i] = <<kind, asset>>})

\* no write comes before a fold in the log
WritesAfterFolds(log) ==
    \A i, j \in DOMAIN log :
        (log[i][1] = "write" /\ log[j][1] = "fold") => j < i

\* C16: in one processing pass each target file is read at most once into its
\* snapshot and written exactly once, and no file is written before the last
\* block of the last queued transaction has been folded into the snapshots.
C16_ReadOnceWrittenOnce ==
    \A p \in DOMAIN passes :
        /\ WritesAfterFolds(passes[p].log)
        /\ \A asset \in Assets :
            Events(passes[p].log, "read", asset) >= 1 =>
                /\ Events(passes[p].log, "read", asset) = 1
                /\ Events(passes[p].log, "write", asset) = 1

\* C17: a call of process() that finds a call in flight returns the completion
\* of that call and starts no pass: the call changes neither the queue, the
\* snapshots, the files nor the passes run, a pass is only ever run by the
\* call that found no completion, and nothing is queued while it is in flight.
C17_ProcessMemoized ==
    [][/\ (tpc.state # "idle" /\ tpc'.callers = tpc.callers + 1) =>
            /\ tpc'.state = tpc.state
            /\ UNCHANGED <<disk, queue, repo, passes>>
       /\ passes' # passes =>
            /\ tpc.state = "running"
            /\ tpc'.state = "resolved"
            /\ Len(passes') = Len(passes) + 1
       /\ (tpc.state # "idle" /\ queue' # queue) => queue' = <<>>]_vars

\* a second call of process() has been made while the pass of the first was
\* in flight with transactions queued
C17_Witness ==
    /\ tpc.state = "running"
    /\ tpc.callers = 2
    /\ queue # <<>>

\* the body writes of the last generate() to the file of the feature
BodyWritesOf(pack, identifier) ==
    {i \in BodyWrites(writes) : writes[i].pack = pack /\ writes[i].file = FileOf(identifier)}

\* C18: registering the same (package, feature, code) again leaves the single
\* entry the first registration made: no package of the registry holds two
\* equal entries, and generate() writes the body of a feature that was only
\* ever registered with one code at most once.
C18_RegisterIdempotent ==
    \A p \in DOMAIN packages :
        \A i \in DOMAIN packages[p].v :
            /\ \A j \in DOMAIN packages[p].v :
                packages[p].v[j] = packages[p].v[i] => j = i
            /\ (\A j \in DOMAIN packages[p].v :
                    packages[p].v[j].identifier = packages[p].v[i].identifier
                        => packages[p].v[j].code = packages[p].v[i].code)
                => Cardinality(BodyWritesOf(packages[p].k, packages[p].v[i].identifier)) <= 1

\* the document of a run: whether the run ends in writeSchema and takes every
\* action, and what it writes
RunResult(ok, doc) ==
    [ok |-> ok, doc |-> doc]

\* a second run of the loop on the store st: each call of fixConflicts applies
\* the queue sols; at a prompt the run queues the remap actions of the mapper
\* and is answered with the next action of the sequence rest
RECURSIVE Rerun(_, _, _, _)
Rerun(st, sols, rest, cfg) ==
    LET patched   == ApplyPatches(st, sols)
        conflicts == Conflicts(patched, cfg)
    IN  IF conflicts = <<>>
        THEN RunResult(rest = <<>>, GenerateSchema(patched, cfg))
        ELSE LET conflict  == conflicts[1]
                 referred1 == GetReferredRelations(patched.modelColumns, conflict.n1)
                 referred2 == GetReferredRelations(patched.modelColumns, conflict.n2)
                 queued    == MapperSuggestions(patched.remapper, conflict, referred1)
                 n         == Len(queued)
             IN  IF (referred1 # <<>> \/ referred2 # <<>>) /\ ~cfg.crossFileRelations
                 THEN RunResult(FALSE, NotWritten)
                 ELSE IF Len(rest) <= n \/ SubSeq(rest, 1, n) # queued
                 THEN RunResult(FALSE, NotWritten)
                 ELSE Rerun(patched, sols \o SubSeq(rest, 1, n + 1),
                            SubSeq(rest, n + 2, Len(rest)), cfg)

\* the run of the loop from load on the fragments and the configuration of
\* this run, answered with the actions of this run
SecondRun ==
    Rerun(Load(config.includeFiles, config.excludeModels, config.relations), <<>>, solutions, config)

Loaded ==
    Load(config.includeFiles, config.excludeModels, config.relations)

\* the key a loaded model has after the actions sols, NoModel once skipped
RECURSIVE CurrentKey(_, _)
CurrentKey(key, sols) ==
    IF sols = <<>>
    THEN key
    ELSE IF Head(sols).key # key
    THEN CurrentKey(key, Tail(sols))
    ELSE IF Head(sols).action.type = "skip"
    THEN NoModel
    ELSE IF Head(sols).action.type \in {"rename", "rename-rel"}
    THEN CurrentKey(<<key[1], Head(sols).action.newName>>, Tail(sols))
    ELSE CurrentKey(key, Tail(sols))

\* every name a queued rename gives is new in its file: no loaded model or
\* enum of the file has it and no other rename in the file gives it
NewNamesUnused ==
    \A i \in DOMAIN solutions :
        solutions[i].action.type \in {"rename", "rename-rel"} =>
            /\ ~Contains(FileModels(Loaded.models), <<solutions[i].key[1], solutions[i].action.newName>>)
            /\ \A j \in DOMAIN solutions :
                (/\ solutions[j].action.type \in {"rename", "rename-rel"}
                 /\ solutions[j].key[1] = solutions[i].key[1]
                 /\ solutions[j].action.newName = solutions[i].action.newName) => j = i

\* the written document has exactly one model block for fileModel, and the
\* block has every column in columns
EmittedOnceWith(fileModel, columns) ==
    /\ Cardinality(BlocksOf(fileModel)) = 1
    /\ \A i \in BlocksOf(fileModel) :
        \A c \in DOMAIN columns :
            \E j \in DOMAIN written.blocks[i].body : written.blocks[i].body[j] = Line(columns[c])

\* C20: no model is lost by resolution: in the document written when the loop
\* is done, every loaded model that was not skipped and is neither shadowed
\* nor an extended parent is emitted exactly once under its current name with
\* all of its columns, provided every new name was unused in its file.
C20_NoModelLost ==
    (pc = "written" /\ NewNamesUnused) =>
        \A m \in DOMAIN Loaded.modelColumns :
            LET current == CurrentKey(Loaded.modelColumns[m].k, solutions)
            IN  (/\ current # NoModel
                 /\ ~Contains(GetShadowedModels(remapper), current)
                 /\ ~Contains(GetExtendedModels(config.extended), current))
                    => EmittedOnceWith(current, Loaded.modelColumns[m].v.cols)

\* C21: in the document written when the loop is done, no two model or enum
\* blocks have the same name.
C21_NoDuplicateBlocks ==
    pc = "written" =>
        \A i, j \in DOMAIN written.blocks :
            written.blocks[i].name = written.blocks[j].name => i = j

\* the action applied by a call of applyPatches on a queue of one action is a
\* rename or rename-rel of a model
SingleModelRename ==
    /\ Len(solutions) = 1
    /\ solutions[1].action.type \in {"rename", "rename-rel"}
    /\ solutions[1].action.item = "model"
    /\ solutions[1].action.newName # solutions[1].key[2]

\* C25: applying rename or rename-rel to file:Old with the new name N leaves
\* every other FileModel in the store with its own columns, the one already
\* named N in the same file included (rename-rel may retype its relation
\* columns: it keeps the names of its columns).
C25_RenameOverwritesNothing ==
    [][(SingleModelRename /\ solutions' = solutions /\ applied.calls = 0 /\ applied'.calls = 1) =>
        \A key \in Range(Keys(modelColumns)) \ {solutions[1].key} :
            /\ Contains(FileModels(models'), key)
            /\ Has(modelColumns', key)
            /\ Get(modelColumns', key).def = Get(modelColumns, key).def
            /\ {c.name : c \in Range(Get(modelColumns', key).cols)}
                = {c.name : c \in Range(Get(modelColumns, key).cols)}]_vars

\* the passes whose queue held one transaction of one block that the pass
\* processed: the asset is a file and the extension filter keeps the block
OneBlockPasses ==
    {p \in DOMAIN passes :
        /\ Len(passes[p].queued) = 1
        /\ passes[p].queued[1].changedAsset \in Assets
        /\ Len(passes[p].queued[1].blocks) = 1
        /\ (useExtensions => passes[p].queued[1].blocks[1].ignoreExtensions)}

\* the block, the asset and the text the pass p of OneBlockPasses started on
BlockOf(p) ==
    passes[p].queued[1].blocks[1]

TargetOf(p) ==
    passes[p].before[passes[p].queued[1].changedAsset]

ResultOf(p) ==
    passes[p].after[passes[p].queued[1].changedAsset]

\* the payload of the block is a string that occurs in the text
PayloadPresent(block, text) ==
    block.to.kind = "string" /\ Test(text, block.to.text)

\* the anchor of the block, a string or a regular expression, does not occur
\* in the text
AnchorAbsent(block, text) ==
    \/ block.from.kind = "string" /\ ~Test(text, block.from.text)
    \/ block.from.kind = "regex" /\ \A i \in DOMAIN text : text[i] \notin block.from.atoms

Occurrences(text, atom) ==
    Cardinality({i \in DOMAIN text : text[i] = atom})

\* the text after the sentinel comment
AfterSentinel(text) ==
    SubSeq(text, IndexFrom(text, <<ExitTypes>>, 1) + 1, Len(text))

\* C23: a REPLACE_FULL block applied to a target that already holds the
\* generated section splices into it: the result has one sentinel, and after
\* the generated section exactly the rest of the file the target had.
C23_ReplaceFullSplices ==
    \A p \in OneBlockPasses :
        (/\ BlockOf(p).strategy = "REPLACE_FULL"
         /\ BlockOf(p).to.kind = "function"
         /\ Occurrences(TargetOf(p), ExitTypes) = 1)
            => /\ Occurrences(ResultOf(p), ExitTypes) = 1
               /\ AfterSentinel(ResultOf(p)) = AfterSentinel(TargetOf(p))

\* the names of the columns, in order
NamesOf(columns) ==
    [i \in DOMAIN columns |-> columns[i].name]

\* the names of the first n lines of a block body, in order
LineNames(body, n) ==
    [i \in 1 .. n |-> body[i][1]]

\* C24: after any sequence of applied actions, the document emits the own
\* columns of each surviving model first and in the order they were loaded in
\* (the columns synthesized for shadowed models and the columns copied from an
\* extended parent follow them).
C24_ColumnsInLoadedOrder ==
    LET doc == GenerateSchema(St, config)
    IN  doc.ok =>
            \A b \in DOMAIN doc.blocks :
                LET key  == <<doc.blocks[b].file, doc.blocks[b].name>>
                    text == GetText(Get(models, key[1]), key[2])
                    own  == GetColumns(Loaded.modelColumns, text.origin).cols
                IN  (doc.blocks[b].kind = "model" /\ text.def /\ text.kind = "model") =>
                        /\ Len(doc.blocks[b].body) >= Len(own)
                        /\ LineNames(doc.blocks[b].body, Len(own)) = NamesOf(own)

\* every prompt so far was answered with a skip: the queue sols holds skips
\* and the remap actions of the mapper only
OnlySkips(sols) ==
    \A i \in DOMAIN sols : sols[i].action.type \in {"skip", "remap"}

\* the number of conflict pairs getConflicts returns on st with the queue sols
PairsAfter(st, sols) ==
    Len(Conflicts(ApplyPatches(st, sols), config))

\* C27: with cross-file relations on, when every prompt is answered with a
\* skip, each iteration of the loop strictly reduces the number of conflict
\* pairs: the getConflicts call that follows an answered prompt returns fewer
\* pairs than the call that led to the prompt, so the loop is done after
\* finitely many iterations.
C27_SkipsReducePairs ==
    [][(/\ config.crossFileRelations
        /\ pc = "fix"
        /\ solutions' # solutions
        /\ OnlySkips(solutions')) =>
            PairsAfter(Store(models', modelColumns', enums', remapper'), solutions')
                < PairsAfter(Store(models', modelColumns', enums', remapper'), <<>>)]_vars

\* a loop whose prompts were all answered with skips, at least two of them,
\* is done
C27_Witness ==
    /\ config.crossFileRelations
    /\ pc = "done"
    /\ OnlySkips(solutions)
    /\ Cardinality({i \in DOMAIN solutions : solutions[i].action.type = "skip"}) >= 2
    /\ Conflicts(St, config) = <<>>

\* the position (from 1) of the first line that holds the anchor, 0 if none
FirstLineWith(lines, anchor) ==
    LET hits == {i \in DOMAIN lines : Test(lines[i], anchor)}
    IN  IF hits = {} THEN 0 ELSE CHOOSE i \in hits : \A h \in hits : i <= h

\* the lines with the payload as a new line after the first n of them
InsertedAfter(lines, n, payload) ==
    LET at == IF n < 0 THEN 0 ELSE IF n > Len(lines) THEN Len(lines) ELSE n
    IN  SubSeq(lines, 1, at) \o <<payload>> \o SubSeq(lines, at + 1, Len(lines))

\* C28: a LINE_ANCHOR block whose anchor occurs in the target and whose
\* payload does not inserts the payload as a line next to the first line that
\* holds the anchor, moved by the offset, and all other lines keep their
\* content and order. The offset is read either way: counted from the line
\* after the anchor line, or from the anchor line itself.
C28_LineAnchorInserts ==
    \A p \in OneBlockPasses :
        LET block == BlockOf(p)
            lines == Split(TargetOf(p), <<NL>>)
            first == FirstLineWith(lines, block.from.text)
        IN  (/\ block.strategy = "REGEX"
             /\ block.from.kind = "string" /\ ValidString(block.from.text)
             /\ block.to.kind = "string" /\ ValidString(block.to.text)
             /\ Test(TargetOf(p), block.from.text)
             /\ ~Test(TargetOf(p), block.to.text))
                => Split(ResultOf(p), <<NL>>)
                    \in {InsertedAfter(lines, first + block.ammend, block.to.text),
                         InsertedAfter(lines, first - 1 + block.ammend, block.to.text)}

\* the text one block makes of text when it is processed alone, on a fresh
\* snapshot of a file that holds text
AppliedAlone(text, asset, block) ==
    LET ps == ProcessBlock(Pass(<<>>, <<>>), [a \in Assets |-> text], asset, block)
    IN  IF Has(ps.repo, asset) THEN Get(ps.repo, asset) ELSE text

RECURSIVE AppliedInTurn(_, _, _)
AppliedInTurn(text, asset, blocks) ==
    IF blocks = <<>>
    THEN text
    ELSE AppliedInTurn(AppliedAlone(text, asset, Head(blocks)), asset, Tail(blocks))

\* the blocks a pass on the queue q processes on the asset, in the order it
\* processes them: the queue is popped from its end
RECURSIVE BlocksOn(_, _)
BlocksOn(q, asset) ==
    IF q = <<>>
    THEN <<>>
    ELSE (IF q[Len(q)].changedAsset = asset
          THEN IF useExtensions
               THEN SelectSeq(q[Len(q)].blocks, LAMBDA b : b.ignoreExtensions)
               ELSE q[Len(q)].blocks
          ELSE <<>>)
         \o BlocksOn(SubSeq(q, 1, Len(q) - 1), asset)

\* C29: within one pass every block is applied to the snapshot the blocks
\* before it on the same file produced, blocks of other transactions
\* included: what the pass writes to a file is what its blocks make of the
\* file's text when each is applied in turn to the result of the one before.
C29_BlocksApplyInTurn ==
    \A p \in DOMAIN passes :
        \A asset \in Assets :
            passes[p].after[asset]
                = AppliedInTurn(passes[p].before[asset], asset, BlocksOn(passes[p].queued, asset))

\* C30: a block whose strategy is NONE is a no-op, whatever its anchor and
\* its payload are: the pass that processes it leaves the target as it was.
C30_NoneIsNoOp ==
    \A p \in OneBlockPasses :
        BlockOf(p).strategy = "NONE" => passes[p].after = passes[p].before

\* a step that is one pass of applyPatches
PassStep ==
    applied'.calls = applied.calls + 1

\* some pattern names a table of the store the queued actions leave
RuleFires ==
    /\ config.enhancedIntrospection
    /\ MatchingPatterns(ApplyPatches(St, solutions).modelColumns, config.introspection) # <<>>

\* the store and the queue after every queued action, then every matching rule
WholePassRan ==
    LET r == RunPatterns([st |-> ApplyPatches(St, solutions), sols |-> solutions,
                          fired |-> FALSE, threw |-> FALSE],
                         MatchingPatterns(ApplyPatches(St, solutions).modelColumns,
                                          config.introspection))
    IN  /\ modelColumns' = r.st.modelColumns
        /\ models' = r.st.models
        /\ solutions' = r.sols

\* C26: with enhanced introspection enabled, a pass of applyPatches in which a
\* rule fires is followed by another pass that runs every queued action and
\* then every rule again, and applyPatches returns only from a pass in which
\* no rule fired.
C26_RerunsUntilNoRuleFires ==
    [][ /\ (PassStep /\ RuleFires => pc' = "again")
        /\ (PassStep /\ pc' = "api" => ~RuleFires)
        /\ (pc = "again" => PassStep /\ WholePassRan) ]_vars

====
